---- MODULE Spec2Model ----
(***************************************************************************)
(* A model of lightkurve/search.py: the resolution of a target into an     *)
(* exact MAST identifier, the exact-identifier / cone-search query         *)
(* sequence of _query_mast, the search entry points and _search_products,  *)
(* and the product filter _filter_products with its per-family masks.      *)
(*                                                                         *)
(* Python strings are modelled as sequences of one-character strings, so   *)
(* that lower(), zfill(), endswith(), `in`, split() and the regular        *)
(* expressions are computed character by character.  An optional value is  *)
(* a sequence of length 0 (None) or 1.                                     *)
(***************************************************************************)
EXTENDS Integers, Sequences, FiniteSets, TLC

VARIABLES pc, entry, target, radius, filetype, cadence, provenance_name,
          quarter, month, campaign, sector, limit, sequence_number,
          log, exact_target_name, observations, products, result, outcome,
          download_dir, cutout_size, coords, unmakeable, dirs, files,
          idx, fetched, retval, calls, local_dir, tesscut_dir, path, exc

\* the state of SearchResult.download / download_all and of the file system
download_vars == <<download_dir, cutout_size, coords, unmakeable, dirs, files,
                   idx, fetched, retval, calls, local_dir, tesscut_dir, path, exc>>

vars == <<pc, entry, target, radius, filetype, cadence, provenance_name,
          quarter, month, campaign, sector, limit, sequence_number,
          log, exact_target_name, observations, products, result, outcome,
          download_dir, cutout_size, coords, unmakeable, dirs, files,
          idx, fetched, retval, calls, local_dir, tesscut_dir, path, exc>>

-----------------------------------------------------------------------------
(* Bounds of the model                                                     *)

\* longest run of digits enumerated after a mission prefix
MaxDigits == 2

\* most rows in a table answered by the remote metadata query
MaxObs == 2

\* most rows in a table handed to _filter_products
MaxRows == 2

\* most products answered by the remote product list
MaxProducts == 2

\* largest limit handed to _filter_products
MaxLimit == 1

-----------------------------------------------------------------------------
(* Optional values                                                         *)

None == << >>

Some(x) == <<x>>

Val(o) == o[1]

\* no download has been asked for
NoDownload ==
    /\ download_dir = None /\ cutout_size = None /\ coords = None
    /\ unmakeable = {} /\ dirs = {} /\ files = {}
    /\ idx = 0 /\ fetched = << >> /\ retval = None /\ calls = 0
    /\ local_dir = None /\ tesscut_dir = None /\ path = None /\ exc = None

-----------------------------------------------------------------------------
(* Python string primitives                                                *)

UpperChars == <<"A","B","C","D","E","F","G","H","I","J","K","L","M","N","O","P","Q","R","S","T","U","V","W","X","Y","Z">>

LowerChars == <<"a","b","c","d","e","f","g","h","i","j","k","l","m","n","o","p","q","r","s","t","u","v","w","x","y","z">>

DigitChars == <<"0","1","2","3","4","5","6","7","8","9">>

\* the lower-case letter of each upper-case letter
LowerMap ==
    [c \in { UpperChars[i] : i \in 1..Len(UpperChars) } |->
        LowerChars[CHOOSE i \in 1..Len(UpperChars) : UpperChars[i] = c]]

\* str.lower() on one character
lower_char(c) == IF c \in DOMAIN LowerMap THEN LowerMap[c] ELSE c

\* str.lower()
lower(s) == [i \in 1..Len(s) |-> lower_char(s[i])]

DigitSet == { DigitChars[i] : i \in 1..Len(DigitChars) }

\* the character class \d
IsDigit(c) == c \in DigitSet

\* str.startswith(p)
startswith(s, p) == Len(s) >= Len(p) /\ SubSeq(s, 1, Len(p)) = p

\* str.endswith(p)
endswith(s, p) == Len(s) >= Len(p) /\ SubSeq(s, Len(s) - Len(p) + 1, Len(s)) = p

\* the substring test `p in s`
contains(s, p) == \E i \in 0..(Len(s) - Len(p)) : SubSeq(s, i + 1, i + Len(p)) = p

\* a zfill that pads on the right
zfill_ljust(s, width) ==
    IF Len(s) >= width THEN s ELSE s \o [i \in 1..(width - Len(s)) |-> "0"]

\* str.zfill(width) for a string without a sign
zfill(s, width) ==
    IF Len(s) >= width THEN s ELSE [i \in 1..(width - Len(s)) |-> "0"] \o s

RECURSIVE NatToStr(_)
NatToStr(n) ==
    IF n < 10 THEN <<DigitChars[n + 1]>>
    ELSE NatToStr(n \div 10) \o <<DigitChars[(n % 10) + 1]>>

\* str(n) for an int n
IntToStr(n) == IF n < 0 THEN <<"-">> \o NatToStr(-n) ELSE NatToStr(n)

-----------------------------------------------------------------------------
(* Targets                                                                 *)

StrTarget(s) == [kind |-> "str", chars |-> s, val |-> 0, ra |-> << >>, dec |-> << >>]

IntTarget(n) == [kind |-> "int", chars |-> << >>, val |-> n, ra |-> << >>, dec |-> << >>]

\* a SkyCoord, held as the decimal text of its ra.deg and dec.deg
CoordTarget(r, d) == [kind |-> "coord", chars |-> << >>, val |-> 0, ra |-> r, dec |-> d]

\* '{}, {}'.format(target.ra.deg, target.dec.deg)
CoordToStr(t) == t.ra \o <<",", " ">> \o t.dec

\* str(target)
Str(t) ==
    IF t.kind = "int" THEN IntToStr(t.val)
    ELSE IF t.kind = "coord" THEN CoordToStr(t)
    ELSE t.chars

-----------------------------------------------------------------------------
(* _query_mast: the exact identifier                                       *)

\* the tail (\d+)$ of the three patterns: the digits matched, << >> if none.
\* `$` also matches just before one final newline.
DigitsThenEnd(r) ==
    LET body == IF r # << >> /\ r[Len(r)] = "\n" THEN SubSeq(r, 1, Len(r) - 1) ELSE r
    IN  IF body # << >> /\ \A i \in 1..Len(body) : IsDigit(body[i]) THEN body ELSE << >>

\* the optional space ` ?`
AfterOptionalSpace(r) == IF r # << >> /\ r[1] = " " THEN Tail(r) ELSE r

\* a pattern whose mission prefix is optional: "^(a1|a2)? ?(\d+)$"
re_match_id_optional_prefix(alts, s) ==
    LET ok(i) == /\ startswith(s, alts[i])
                 /\ DigitsThenEnd(AfterOptionalSpace(SubSeq(s, Len(alts[i]) + 1, Len(s)))) # << >>
    IN  IF \E i \in 1..Len(alts) : ok(i)
        THEN LET i == CHOOSE j \in 1..Len(alts) : ok(j) /\ \A k \in 1..(j - 1) : ~ok(k)
             IN  DigitsThenEnd(AfterOptionalSpace(SubSeq(s, Len(alts[i]) + 1, Len(s))))
        ELSE DigitsThenEnd(AfterOptionalSpace(s))

\* re.match("^(a1|a2) ?(\d+)$", s): group(2) of the match, << >> without a match
re_match_id(alts, s) ==
    LET ok(i) == /\ startswith(s, alts[i])
                 /\ DigitsThenEnd(AfterOptionalSpace(SubSeq(s, Len(alts[i]) + 1, Len(s)))) # << >>
    IN  IF \E i \in 1..Len(alts) : ok(i)
        THEN LET i == CHOOSE j \in 1..Len(alts) : ok(j) /\ \A k \in 1..(j - 1) : ~ok(k)
             IN  DigitsThenEnd(AfterOptionalSpace(SubSeq(s, Len(alts[i]) + 1, Len(s))))
        ELSE << >>

KplrAlts == << <<"k","p","l","r">>, <<"k","i","c">> >>

KtwoAlts == << <<"k","t","w","o">>, <<"e","p","i","c">> >>

TessAlts == << <<"t","e","s","s">>, <<"t","i","c">> >>

kplr_match(target_lower) == re_match_id(KplrAlts, target_lower)

ktwo_match(target_lower) == re_match_id(KtwoAlts, target_lower)

tess_match(target_lower) == re_match_id(TessAlts, target_lower)

\* the width of the zero padding
IdWidth == 9

\* the three `if ..._match:` statements, each overwriting the one before
ExactTargetName(t) ==
    LET target_lower == lower(Str(t))
        e0 == None
        e1 == IF kplr_match(target_lower) # << >>
              THEN Some(<<"k","p","l","r">> \o zfill(kplr_match(target_lower), IdWidth)) ELSE e0
        e2 == IF ktwo_match(target_lower) # << >>
              THEN Some(<<"k","t","w","o">> \o zfill(ktwo_match(target_lower), IdWidth)) ELSE e1
        e3 == IF tess_match(target_lower) # << >>
              THEN Some(zfill(tess_match(target_lower), IdWidth)) ELSE e2
    IN  e3

\* the truth value of an optional string
Truthy(o) == o # None /\ Val(o) # << >>

-----------------------------------------------------------------------------
(* Tables and the remote metadata service                                  *)

\* an argument that is None, an int, or a list of ints (quarter, campaign,
\* sector, month, sequence_number)
NoArg == [kind |-> "none", items |-> << >>]

IntArg(n) == [kind |-> "int", items |-> <<n>>]

ListArg(l) == [kind |-> "list", items |-> l]

\* `x is None`
IsNone(a) == a.kind = "none"

\* np.atleast_1d(x)
atleast_1d(a) == a.items

\* the truth value of None, an int or a list
ArgTruthy(a) ==
    IF a.kind = "int" THEN a.items[1] # 0
    ELSE IF a.kind = "list" THEN a.items # << >>
    ELSE FALSE

\* one row of the observations table
Obs(id, name, proj, prov, seq, dist) ==
    [obs_id |-> id, target_name |-> name, project |-> proj,
     provenance_name |-> prov, sequence_number |-> seq, distance |-> dist]

\* the string literals of the code and of MAST's tables
Lit ==
    [ Kepler |-> <<"K","e","p","l","e","r">>,
      K2 |-> <<"K","2">>,
      TESS |-> <<"T","E","S","S">>,
      SPOC |-> <<"S","P","O","C">>,
      TargetPixel |-> <<"T","a","r","g","e","t"," ","P","i","x","e","l">>,
      Lightcurve |-> <<"L","i","g","h","t","c","u","r","v","e">>,
      ffi |-> <<"f","f","i">>,
      long |-> <<"l","o","n","g">>,
      Short |-> <<"S","h","o","r","t">>,
      short |-> <<"s","h","o","r","t">>,
      sc |-> <<"s","c">>,
      any |-> <<"a","n","y">>,
      both |-> <<"b","o","t","h">>,
      all |-> <<"a","l","l">>,
      kepler |-> <<"k","e","p","l","e","r">>,
      k2 |-> <<"k","2">>,
      spoc |-> <<"s","p","o","c">> ]

\* the observations the remote service may answer with
ObsMenu ==
    { Obs(1, <<"k","p","l","r","0","0","0","0","0","0","0","0","7">>, Lit.Kepler, Lit.Kepler, None, 2),
      Obs(2, <<"0","0","0","0","0","0","0","0","7">>, Lit.TESS, Lit.SPOC, Some(1), 0),
      Obs(3, <<"T","E","S","S"," ","F","F","I">>, Lit.TESS, Lit.SPOC, Some(2), 1),
      Obs(4, <<"T","E","S","S"," ","F","F","I">>, Lit.TESS, Lit.SPOC, Some(1), 1),
      Obs(5, <<"T","E","S","S"," ","F","F","I">>, Lit.TESS, Lit.SPOC, Some(1), 1) }

\* every table of at most MaxObs observations with distinct obs_id
RemoteTables ==
    UNION { { t \in [1..n -> ObsMenu] :
                \A i, j \in 1..n : i # j => t[i].obs_id # t[j].obs_id } : n \in 0..MaxObs }

\* the row orders of table t: a sort leaves one of them, any whose keys
\* ascend (rows of equal key in any order)
Orders(t) == { [i \in 1..Len(t) |-> t[p[i]]] : p \in Permutations(1..Len(t)) }

by_distance(a, b) == a.distance <= b.distance

\* line 884: obs.sort('distance')
sort_by_distance(t) ==
    { s \in Orders(t) : \A i \in 1..(Len(s) - 1) : by_distance(s[i], s[i + 1]) }

\* a record of the log: a warning or a remote request, with the number of
\* rows the request was answered with (-1: it raised)
Event(op, name, seqno, rad, rows) ==
    [op |-> op, name |-> name, seqno |-> seqno, radius |-> rad, rows |-> rows]

\* a radius given as a bare number of arcseconds, or as a Quantity (held in
\* units of 0.0001 arcsec)
BareRadius(n) == [quantity |-> FALSE, v |-> n]

QuantityRadius(n) == [quantity |-> TRUE, v |-> n]

\* .0001 * u.arcsec
DefaultRadius == QuantityRadius(1)

\* radius * u.arcsec
to_arcsec(r) == IF r.quantity THEN r ELSE QuantityRadius(r.v * 10000)

-----------------------------------------------------------------------------
(* _query_mast                                                             *)

\* lines 819-852: the SkyCoord conversion and the exact identifier
query_mast_resolve ==
    /\ pc = "query_mast"
    /\ target' = IF target.kind = "coord" THEN StrTarget(CoordToStr(target)) ELSE target
    /\ exact_target_name' = ExactTargetName(target')
    /\ pc' = "qm_resolved"
    /\ UNCHANGED <<entry, radius, filetype, cadence, provenance_name, quarter, month,
                   campaign, sector, limit, sequence_number, log, observations,
                   products, result, outcome>>
    /\ UNCHANGED download_vars

\* an exact query that is issued whether or not a radius was given
query_exact_any_radius ==
    /\ pc = "qm_resolved"
    /\ Truthy(exact_target_name)
    /\ \E obs \in RemoteTables :
          /\ log' = Append(log, Event("query_exact", Val(exact_target_name),
                                      sequence_number, None, Len(obs)))
          /\ IF Len(obs) > 0
             THEN /\ observations' = [i \in 1..Len(obs) |-> [obs[i] EXCEPT !.distance = 0]]
                  /\ pc' = "qm_returned"
             ELSE /\ observations' = observations
                  /\ pc' = "qm_cone"
    /\ UNCHANGED <<entry, target, radius, filetype, cadence, provenance_name, quarter,
                   month, campaign, sector, limit, sequence_number, exact_target_name,
                   products, result, outcome>>
    /\ UNCHANGED download_vars

\* lines 854-867: the query by exact target_name.  The remote service answers
\* with a table, or the request fails (no except clause encloses it).
query_exact ==
    /\ pc = "qm_resolved"
    /\ Truthy(exact_target_name) /\ radius = None
    /\ \/ \E obs \in RemoteTables :
             /\ log' = Append(log, Event("query_exact", Val(exact_target_name),
                                         sequence_number, None, Len(obs)))
             /\ IF Len(obs) > 0
                THEN /\ observations' = [i \in 1..Len(obs) |-> [obs[i] EXCEPT !.distance = 0]]
                     /\ pc' = "qm_returned"
                ELSE /\ observations' = observations
                     /\ pc' = "qm_cone"
             /\ outcome' = outcome
       \/ /\ log' = Append(log, Event("query_exact", Val(exact_target_name),
                                      sequence_number, None, -1))
          /\ observations' = observations
          /\ pc' = "raised"
          /\ outcome' = "RemoteServiceError"
    /\ UNCHANGED <<entry, target, radius, filetype, cadence, provenance_name, quarter,
                   month, campaign, sector, limit, sequence_number, exact_target_name,
                   products, result>>
    /\ UNCHANGED download_vars

\* the radius of the cone search: the local `radius` after lines 871-874
cone_radius(r) == IF r = None THEN DefaultRadius ELSE to_arcsec(Val(r))

\* lines 869-888: the cone search by objectname.  The variable radius keeps
\* the argument of the call; the local value of lines 871-874 is used in
\* this step only and is recorded in the request.  The remote service
\* answers with a table, fails to resolve the name (ResolverError, raised
\* again as SearchError) or fails otherwise.
query_cone ==
    /\ \/ pc = "qm_cone"
       \/ pc = "qm_resolved" /\ ~(Truthy(exact_target_name) /\ radius = None)
    /\ \/ \E obs \in RemoteTables : \E sorted \in sort_by_distance(obs) :
             /\ log' = Append(log, Event("query_cone", Str(target), sequence_number,
                                         Some(cone_radius(radius)), Len(obs)))
             /\ observations' = sorted
             /\ pc' = "qm_returned"
             /\ outcome' = outcome
       \/ /\ log' = Append(log, Event("query_cone", Str(target), sequence_number,
                                      Some(cone_radius(radius)), -1))
          /\ observations' = observations
          /\ pc' = "raised"
          /\ outcome' \in {"SearchError", "RemoteServiceError"}
    /\ UNCHANGED <<entry, target, radius, filetype, cadence, provenance_name, quarter, month,
                   campaign, sector, limit, sequence_number, exact_target_name,
                   products, result>>
    /\ UNCHANGED download_vars

-----------------------------------------------------------------------------
(* The targets a call of _query_mast is checked on                         *)

PrefixMenu ==
    { <<"k","p","l","r">>, <<"k","i","c">>, <<"K","I","C">>, <<"k","t","w","o">>,
      <<"e","p","i","c">>, <<"E","P","I","C">>, <<"t","e","s","s">>, <<"t","i","c">>,
      <<"k","i","c","x">>, << >> }

SepMenu == { << >>, <<" ">>, <<" ", " ">> }

DigitAlphabet == {"0", "7"}

DigitMenu ==
    UNION { [1..n -> DigitAlphabet] : n \in 0..MaxDigits }
      \cup { <<"3","7","7","7","8","0","7","9","0">>,
             <<"1","2","3","4","5","6","7","8","9","0">> }

SuffixMenu == { << >>, <<"a">>, <<"\n">> }

IntMenu == { -1, 0, 1, 7, 13161029, 13161030, 200000000, 251813738, 251813739, 377780790 }

QueryTargets ==
    { StrTarget(p \o s \o d \o x) : p \in PrefixMenu, s \in SepMenu, d \in DigitMenu, x \in SuffixMenu }
      \cup { IntTarget(n) : n \in IntMenu }
      \cup { StrTarget(<<"K","e","p","l","e","r","-","1","0">>),
             CoordTarget(<<"2","8","5",".","5">>, <<"5","0",".","2","5">>) }

RadiusMenu == { None, Some(BareRadius(10)), Some(QuantityRadius(1)) }

\* a list of provenance names, or None
NoProvenance == [kind |-> "none", items |-> << >>]

ProvenanceList(l) == [kind |-> "list", items |-> l]

DefaultProvenance == ProvenanceList(<<Lit.Kepler, Lit.K2, Lit.SPOC>>)

\* a call _query_mast(target, radius=..., sequence_number=...)
InitQuery ==
    /\ pc = "query_mast"
    /\ entry = "_query_mast"
    /\ target \in QueryTargets
    /\ radius \in RadiusMenu
    /\ sequence_number \in {NoArg, IntArg(1)}
    /\ filetype = Lit.Lightcurve
    /\ cadence = Lit.long
    /\ provenance_name = DefaultProvenance
    /\ quarter = NoArg /\ month = NoArg /\ campaign = NoArg /\ sector = NoArg
    /\ limit = None
    /\ log = << >>
    /\ exact_target_name = None
    /\ observations = << >>
    /\ products = << >>
    /\ result = << >>
    /\ outcome = "none"
    /\ NoDownload

NextQuery == query_mast_resolve \/ query_exact \/ query_cone

SpecQuery == InitQuery /\ [][NextQuery]_vars

-----------------------------------------------------------------------------
(* More string primitives, used on descriptions, file names and URIs       *)

\* the characters of the tables, in code-point order
CharOrder == <<"\n"," ","(",")","+",",","-",".","/","0","1","2","3","4","5","6","7","8","9","A","B","C","D","E","F","G","H","I","J","K","L","M","N","O","P","Q","R","S","T","U","V","W","X","Y","Z","_","a","b","c","d","e","f","g","h","i","j","k","l","m","n","o","p","q","r","s","t","u","v","w","x","y","z">>

OrdMap ==
    [c \in { CharOrder[i] : i \in 1..Len(CharOrder) } |->
        CHOOSE i \in 1..Len(CharOrder) : CharOrder[i] = c]

\* ord(c), up to the order of the characters
ord(c) == OrdMap[c]

\* a <= b for two strings: the comparison the sort applies to a text column
RECURSIVE str_le(_, _)
str_le(a, b) ==
    IF a = << >> THEN TRUE
    ELSE IF b = << >> THEN FALSE
    ELSE IF a[1] = b[1] THEN str_le(Tail(a), Tail(b))
    ELSE ord(a[1]) < ord(b[1])

\* s.split(sep): the pieces between the occurrences of sep, found left to right
RECURSIVE split(_, _)
split(s, sep) ==
    LET hits == { i \in 1..(Len(s) - Len(sep) + 1) : SubSeq(s, i, i + Len(sep) - 1) = sep }
    IN  IF hits = {} THEN <<s>>
        ELSE LET i == CHOOSE h \in hits : \A g \in hits : h <= g
             IN  <<SubSeq(s, 1, i - 1)>> \o split(SubSeq(s, i + Len(sep), Len(s)), sep)

\* s.replace('-', '')
remove_hyphens(s) == SelectSeq(s, LAMBDA c : c # "-")

\* s.strip() of blanks
RECURSIVE strip(_)
strip(s) ==
    IF s # << >> /\ s[1] = " " THEN strip(Tail(s))
    ELSE IF s # << >> /\ s[Len(s)] = " " THEN strip(SubSeq(s, 1, Len(s) - 1))
    ELSE s

RECURSIVE StrToNat(_)
StrToNat(d) ==
    IF d = << >> THEN 0
    ELSE 10 * StrToNat(SubSeq(d, 1, Len(d) - 1))
           + ((CHOOSE i \in 1..10 : DigitChars[i] = d[Len(d)]) - 1)

\* int(s): blanks around, an optional sign, digits with single underscores
\* between them; anything else raises ValueError
int(s) ==
    LET t    == strip(s)
        neg  == t # << >> /\ t[1] = "-"
        body == IF t # << >> /\ t[1] \in {"-", "+"} THEN Tail(t) ELSE t
        ok   == /\ body # << >>
                /\ IsDigit(body[1]) /\ IsDigit(body[Len(body)])
                /\ \A i \in 1..Len(body) : IsDigit(body[i]) \/ body[i] = "_"
                /\ \A i \in 1..(Len(body) - 1) : ~(body[i] = "_" /\ body[i + 1] = "_")
        n    == StrToNat(SelectSeq(body, IsDigit))
    IN  IF ok THEN [ok |-> TRUE, val |-> IF neg THEN -n ELSE n]
        ELSE [ok |-> FALSE, val |-> 0]

\* re.findall(r".*Q(\d+)", s): the group of its first match, << >> when the
\* list is empty.  The greedy `.*` stops at the last 'Q' that a digit follows.
findall_Q(s) ==
    LET hits == { i \in 1..(Len(s) - 1) : s[i] = "Q" /\ IsDigit(s[i + 1]) }
    IN  IF hits = {} THEN << >>
        ELSE LET i == CHOOSE h \in hits : \A g \in hits : g <= h
                 e == CHOOSE k \in (i + 1)..Len(s) :
                        /\ \A j \in (i + 1)..k : IsDigit(s[j])
                        /\ (k = Len(s) \/ ~IsDigit(s[k + 1]))
             IN  SubSeq(s, i + 1, e)

-----------------------------------------------------------------------------
(* _filter_products and the masks of the three families                    *)

\* x in l, for a list l
InList(x, l) == \E i \in 1..Len(l) : l[i] = x

\* mask.sum()
mask_sum(mask) == Cardinality({ i \in 1..Len(mask) : mask[i] })

\* products[mask]
select_rows(t, mask) ==
    LET F[i \in 0..Len(t)] ==
            IF i = 0 THEN << >>
            ELSE IF mask[i] THEN Append(F[i - 1], t[i]) ELSE F[i - 1]
    IN  F[Len(t)]

\* lines 919-922
provenance_lower(pn) ==
    IF pn.kind = "none" THEN <<Lit.kepler, Lit.k2, Lit.spoc>>
    ELSE [i \in 1..Len(pn.items) |-> lower(pn.items[i])]

\* a description text that ignores the cadence
description_string_any_cadence(cad, ft) == ft

\* lines 964-969 and 1018-1023: the text a description must contain
description_string(cad, ft) ==
    IF cad \in {Lit.short, Lit.sc} THEN ft \o <<" ","S","h","o","r","t">>
    ELSE IF cad \in {Lit.any, Lit.both} THEN ft
    ELSE ft \o <<" ","L","o","n","g">>

\* data/short_cadence_month_lookup.csv: Quarter, Month, StartTime
MonthLookup ==
    << [Quarter |-> 1, Month |-> 1, StartTime |-> <<"2","0","0","9","1","6","6">>],
       [Quarter |-> 5, Month |-> 1, StartTime |-> <<"2","0","1","0","1","1","1">>],
       [Quarter |-> 5, Month |-> 2, StartTime |-> <<"2","0","1","0","1","4","0">>],
       [Quarter |-> 5, Month |-> 3, StartTime |-> <<"2","0","1","0","1","7","4">>] >>

\* s[1:]
drop_first(s) == IF s = << >> THEN << >> ELSE Tail(s)

\* line 995: the quarter read from the description
description_quarter(desc) ==
    LET pieces == split(desc, <<" ","-"," ">>)
    IN  int(remove_hyphens(drop_first(pieces[Len(pieces)])))

\* line 996, split('/')[-1].split('-'): IndexError when it has no second piece
uri_pieces(uri) ==
    LET parts == split(uri, <<"/">>)
    IN  split(parts[Len(parts)], <<"-">>)

\* line 996: the date read from the data URI
uri_date(uri) == split(uri_pieces(uri)[2], <<"_">>)[1]

\* the start dates of the months in every quarter
permitted_dates_any_quarter(q, months) ==
    { MonthLookup[k].StartTime : k \in { j \in 1..Len(MonthLookup) :
          \E m \in 1..Len(months) : MonthLookup[j].Month = months[m] } }

\* lines 997-1004: the start dates permitted for quarter q and the months
permitted_dates(q, months) ==
    { MonthLookup[k].StartTime : k \in { j \in 1..Len(MonthLookup) :
          /\ MonthLookup[j].Quarter = q
          /\ \E m \in 1..Len(months) : MonthLookup[j].Month = months[m]
          /\ \A i \in 1..(j - 1) : ~(MonthLookup[i].Quarter = q
                                     /\ MonthLookup[i].Month = MonthLookup[j].Month) } }

\* lines 994-996 for one row: the exception raised there, "none" without one
month_row_error(row) ==
    IF ~description_quarter(row.description).ok THEN "ValueError"
    ELSE IF Len(uri_pieces(row.dataURI)) < 2 THEN "IndexError"
    ELSE "none"

\* a suffix that leaves out the letter q
quarter_suffix_digits_only(q) == IntToStr(q)

\* line 978: 'q{}'.format(q)
quarter_suffix(q) == <<"q">> \o IntToStr(q)

\* _mask_kepler_products: the mask, or the exception that ends the call
mask_kepler_products(t, quarter_, month_, cadence_, filetype_) ==
    LET n        == Len(t)
        mask0(i) == lower(t[i].provenance_name) = Lit.kepler
        ds       == description_string(cadence_, filetype_)
        mask1(i) == mask0(i) /\ contains(t[i].description, ds)
        quarter_mask(i) ==
            \E k \in 1..Len(atleast_1d(quarter_)) :
                endswith(remove_hyphens(lower(t[i].description)),
                         quarter_suffix(atleast_1d(quarter_)[k]))
        mask2(i) == IF IsNone(quarter_) THEN mask1(i) ELSE mask1(i) /\ quarter_mask(i)
        is_shortcadence(i) == mask2(i) /\ contains(t[i].description, Lit.Short)
        failing  == { i \in 1..n : is_shortcadence(i) /\ month_row_error(t[i]) # "none" }
        mask3(i) == IF is_shortcadence(i)
                    THEN uri_date(t[i].dataURI)
                           \in permitted_dates(description_quarter(t[i].description).val,
                                               atleast_1d(month_))
                    ELSE mask2(i)
    IN  IF \A i \in 1..n : ~mask0(i) THEN [err |-> "none", mask |-> [i \in 1..n |-> FALSE]]
        ELSE IF IsNone(month_) THEN [err |-> "none", mask |-> [i \in 1..n |-> mask2(i)]]
        ELSE IF failing # {}
             THEN [err |-> month_row_error(t[CHOOSE i \in failing : \A j \in failing : i <= j]),
                   mask |-> << >>]
        ELSE [err |-> "none", mask |-> [i \in 1..n |-> mask3(i)]]

\* _mask_k2_products (the campaign argument is not used)
mask_k2_products(t, campaign_, cadence_, filetype_) ==
    LET n     == Len(t)
        mask0 == [i \in 1..n |-> lower(t[i].provenance_name) = Lit.k2]
        ds    == description_string(cadence_, filetype_)
    IN  IF mask_sum(mask0) = 0 THEN mask0
        ELSE [i \in 1..n |-> mask0[i] /\ contains(t[i].description, ds)]

\* lines 1036-1041: the text for the file type, << >> when no branch assigns it
spoc_description_string(filetype_) ==
    IF lower(filetype_) = <<"l","i","g","h","t","c","u","r","v","e">>
    THEN Some(<<"L","i","g","h","t"," ","c","u","r","v","e","s">>)
    ELSE IF lower(filetype_) = <<"t","a","r","g","e","t"," ","p","i","x","e","l">>
    THEN Some(<<"T","a","r","g","e","t"," ","p","i","x","e","l"," ","f","i","l","e","s">>)
    ELSE IF lower(filetype_) = <<"f","f","i">>
    THEN Some(<<"T","E","S","S","c","u","t">>)
    ELSE None

\* _mask_spoc_products (the sector argument is not used): the mask, or the
\* UnboundLocalError of line 1042 for a file type no branch handles
mask_spoc_products(t, sector_, filetype_) ==
    LET n     == Len(t)
        mask0 == [i \in 1..n |-> lower(t[i].provenance_name) = Lit.spoc]
        ds    == spoc_description_string(filetype_)
    IN  IF mask_sum(mask0) = 0 THEN [err |-> "none", mask |-> mask0]
        ELSE IF ds = None THEN [err |-> "UnboundLocalError", mask |-> << >>]
        ELSE [err |-> "none",
              mask |-> [i \in 1..n |-> mask0[i] /\ contains(t[i].description, Val(ds))]]

\* lines 943-946: the file name ends in 'fits' or 'fits.gz'
fits_mask(t) ==
    [i \in 1..Len(t) |->
        \/ endswith(lower(t[i].productFilename), <<"f","i","t","s">>)
        \/ endswith(lower(t[i].productFilename), <<"f","i","t","s",".","g","z">>)]

\* a family step that leaves the rows of the family as they were
after_family_keep(mask, t, fam, fm) == [i \in 1..Len(t) |-> mask[i] \/ fm[i]]

\* lines 927-929, 933-936, 939-941: `mask &= ~family`, then `mask |=` the
\* mask of the family (all False when the family's filter is not applied)
after_family(mask, t, fam, fm) ==
    [i \in 1..Len(t) |-> (mask[i] /\ lower(t[i].provenance_name) # fam) \/ fm[i]]

\* lines 919-941: the mask of the family selection, or the exception raised
family_mask(t, campaign_, quarter_, month_, sector_, cadence_, provenance_name_, filetype_) ==
    LET n  == Len(t)
        pl == provenance_lower(provenance_name_)
        none == [i \in 1..n |-> FALSE]
        use_kepler == InList(Lit.kepler, pl) /\ IsNone(campaign_) /\ IsNone(sector_)
        k  == IF use_kepler
              THEN mask_kepler_products(t, quarter_, month_, cadence_, filetype_)
              ELSE [err |-> "none", mask |-> none]
        use_k2 == InList(Lit.k2, pl) /\ IsNone(quarter_) /\ IsNone(sector_)
        k2 == IF use_k2 THEN mask_k2_products(t, campaign_, cadence_, filetype_) ELSE none
        use_spoc == InList(Lit.spoc, pl) /\ IsNone(quarter_) /\ IsNone(campaign_)
        sp == IF use_spoc THEN mask_spoc_products(t, sector_, filetype_)
              ELSE [err |-> "none", mask |-> none]
        ones == [i \in 1..n |-> TRUE]
    IN  IF k.err # "none" THEN [err |-> k.err, mask |-> << >>]
        ELSE IF sp.err # "none" THEN [err |-> sp.err, mask |-> << >>]
        ELSE [err |-> "none",
              mask |-> after_family(after_family(after_family(ones, t, Lit.kepler, k.mask),
                                                 t, Lit.k2, k2),
                                    t, Lit.spoc, sp.mask)]

\* a mask that keeps the SPOC rows for a short cadence only
filter_mask_spoc_short_only(t, campaign_, quarter_, month_, sector_, cadence_, provenance_name_, filetype_) ==
    LET f == family_mask(t, campaign_, quarter_, month_, sector_, cadence_,
                         provenance_name_, filetype_)
    IN  IF f.err # "none" THEN f
        ELSE [err |-> "none",
              mask |-> [i \in 1..Len(t) |->
                          /\ f.mask[i] /\ fits_mask(t)[i]
                          /\ lower(t[i].provenance_name) = Lit.spoc
                                => cadence_ \in {Lit.short, Lit.sc}]]

\* lines 919-948: the mask over the rows of t, or the exception raised: the
\* family selection and then `mask &=` the file-name mask
filter_mask(t, campaign_, quarter_, month_, sector_, cadence_, provenance_name_, filetype_) ==
    LET f == family_mask(t, campaign_, quarter_, month_, sector_, cadence_,
                         provenance_name_, filetype_)
        fits == fits_mask(t)
    IN  IF f.err # "none" THEN f
        ELSE [err |-> "none", mask |-> [i \in 1..Len(t) |-> f.mask[i] /\ fits[i]]]

\* an order on the distance alone
by_distance_only(a, b) == a.distance <= b.distance

\* the order of products.sort(['distance', 'productFilename'])
by_distance_filename(a, b) ==
    \/ a.distance < b.distance
    \/ a.distance = b.distance /\ str_le(a.productFilename, b.productFilename)

\* line 950: products.sort(['distance', 'productFilename'])
sort_by_distance_filename(t) ==
    { s \in Orders(t) : \A i \in 1..(Len(s) - 1) : by_distance_filename(s[i], s[i + 1]) }

\* a slice that keeps one row more: products[0:limit + 1]
slice_to_one_more(t, lim) ==
    IF lim = None THEN t
    ELSE SubSeq(t, 1, IF Val(lim) + 1 > Len(t) THEN Len(t) ELSE Val(lim) + 1)

\* products[0:limit]
slice_to(t, lim) ==
    IF lim = None THEN t
    ELSE LET l    == Val(lim)
             stop == IF l < 0 THEN (IF Len(t) + l < 0 THEN 0 ELSE Len(t) + l)
                     ELSE (IF l > Len(t) THEN Len(t) ELSE l)
         IN  SubSeq(t, 1, stop)

\* _filter_products: every outcome of a call, an exception or a returned
\* table (one for each order the sort may leave rows of equal key in)
filter_products(t, campaign_, quarter_, month_, sector_, cadence_, limit_, provenance_name_, filetype_) ==
    LET m == filter_mask(t, campaign_, quarter_, month_, sector_, cadence_,
                         provenance_name_, filetype_)
    IN  IF m.err # "none" THEN { [err |-> m.err, table |-> << >>] }
        ELSE { [err |-> "none", table |-> slice_to(sorted, limit_)] :
                 sorted \in sort_by_distance_filename(select_rows(t, m.mask)) }

-----------------------------------------------------------------------------
(* Properties of _query_mast                                               *)

\* the remote metadata queries issued so far, in order
Queries == SelectSeq(log, LAMBDA e : e.op \in {"query_exact", "query_cone"})

\* e is the digit string d left-padded with zeros to 9 characters
PaddedTo9(d, e) ==
    /\ Len(e) = (IF Len(d) < 9 THEN 9 ELSE Len(d))
    /\ SubSeq(e, Len(e) - Len(d) + 1, Len(e)) = d
    /\ \A i \in 1..(Len(e) - Len(d)) : e[i] = "0"

\* the mission prefixes a target may carry and the head of the identifier
C1_Missions ==
    { [prefixes |-> { <<"k","p","l","r">>, <<"k","i","c">> }, head |-> <<"k","p","l","r">>],
      [prefixes |-> { <<"k","t","w","o">>, <<"e","p","i","c">> }, head |-> <<"k","t","w","o">>],
      [prefixes |-> { <<"t","e","s","s">>, <<"t","i","c">> }, head |-> << >>] }

\* C1: once _query_mast has resolved its target, a target whose lower-cased
\* text is a mission prefix, at most one space and one or more digits has
\* the exact identifier of that mission: 'kplr' or 'ktwo' (nothing for
\* TESS) followed by the digits left-padded with zeros to 9 characters;
\* and no target matches more than one of the three mission patterns.
C1_ExactIdentifier ==
    pc # "query_mast" =>
        LET t == lower(Str(target))
        IN  /\ \A m \in C1_Missions : \A p \in m.prefixes : \A sp \in { << >>, <<" ">> } :
                  LET h == p \o sp
                      d == SubSeq(t, Len(h) + 1, Len(t))
                  IN  (startswith(t, h) /\ d # << >> /\ \A i \in 1..Len(d) : IsDigit(d[i]))
                        => /\ exact_target_name # None
                           /\ startswith(Val(exact_target_name), m.head)
                           /\ PaddedTo9(d, SubSeq(Val(exact_target_name), Len(m.head) + 1,
                                                  Len(Val(exact_target_name))))
            /\ Cardinality({ k \in 1..3 :
                               <<kplr_match(t), ktwo_match(t), tess_match(t)>>[k] # << >> }) <= 1

\* C1 witness: 'KIC 7' has been resolved to kplr000000007
C1_Witness ==
    /\ pc = "qm_resolved"
    /\ Str(target) = <<"K","I","C"," ","7">>
    /\ exact_target_name = Some(<<"k","p","l","r","0","0","0","0","0","0","0","0","7">>)

\* C2: for a bare integer target, whatever the radius, no exact-identifier
\* query is ever issued: every remote metadata query is the cone search by
\* objectname.
C2_BareIntegerNoExactQuery ==
    target.kind = "int" =>
        \A i \in 1..Len(Queries) :
            Queries[i].op = "query_cone" /\ Queries[i].name = IntToStr(target.val)

\* C2 witness: the call for a bare integer has returned after its cone search
C2_Witness ==
    /\ target.kind = "int"
    /\ pc = "qm_returned"
    /\ Len(Queries) = 1
    /\ Queries[1].op = "query_cone"

\* the call of _query_mast has returned or raised
QueryFinished == pc \in {"qm_returned", "raised"}

\* C4: with an exact identifier and radius None the exact query is issued
\* first and the cone search follows if and only if the exact query was
\* answered with zero rows; with a radius given the exact query is never
\* issued and the cone search is the only query; at most two queries are
\* issued per call.
C4_QueryOrder ==
    /\ Len(Queries) <= 2
    /\ \A i \in 1..Len(Queries) :
          Queries[i].op = "query_exact" => i = 1 /\ radius = None
    /\ (QueryFinished /\ Truthy(exact_target_name) /\ radius = None) =>
          /\ Queries[1].op = "query_exact"
          /\ (Len(Queries) = 2) <=> (Queries[1].rows = 0)
          /\ Len(Queries) = 2 => Queries[2].op = "query_cone"
    /\ (QueryFinished /\ radius # None) =>
          Len(Queries) = 1 /\ Queries[1].op = "query_cone"

\* C4 witness: the exact query found nothing and the cone search followed
C4_Witness ==
    /\ pc = "qm_returned"
    /\ Len(Queries) = 2
    /\ Queries[1].op = "query_exact" /\ Queries[1].rows = 0
    /\ Queries[2].op = "query_cone"

-----------------------------------------------------------------------------
(* The tables a call of _filter_products is checked on                     *)

\* description values of MAST product tables
Desc ==
    [ TPLongQ5 |-> <<"T","a","r","g","e","t"," ","P","i","x","e","l"," ","L","o","n","g"," ","-"," ","Q","5">>,
      TPShortQ5 |-> <<"T","a","r","g","e","t"," ","P","i","x","e","l"," ","S","h","o","r","t"," ","-"," ","Q","5">>,
      TPLongQ15 |-> <<"T","a","r","g","e","t"," ","P","i","x","e","l"," ","L","o","n","g"," ","-"," ","Q","1","5">>,
      TPQ5 |-> <<"T","a","r","g","e","t"," ","P","i","x","e","l"," ","-"," ","Q","-","5">>,
      TPShortQ1 |-> <<"T","a","r","g","e","t"," ","P","i","x","e","l"," ","S","h","o","r","t"," ","-"," ","Q","1">>,
      TPShortC1 |-> <<"T","a","r","g","e","t"," ","P","i","x","e","l"," ","S","h","o","r","t"," ","-"," ","C","1">>,
      TPShort |-> <<"T","a","r","g","e","t"," ","P","i","x","e","l"," ","S","h","o","r","t">>,
      LCLongC1 |-> <<"L","i","g","h","t","c","u","r","v","e"," ","L","o","n","g"," ","-"," ","C","1">>,
      SpocTP |-> <<"T","a","r","g","e","t"," ","p","i","x","e","l"," ","f","i","l","e","s">> ]

\* dataURI values of MAST product tables
DataURI ==
    [ Q5M1 |-> <<"m","/","k","-","2","0","1","0","1","1","1","_","s",".","f","i","t","s">>,
      Q5M2 |-> <<"m","/","k","-","2","0","1","0","1","4","0","_","s",".","f","i","t","s">>,
      NoDate |-> <<"m","/","k",".","f","i","t","s">> ]

\* a row of the joined table as _filter_products reads it: provenance_name,
\* description, productFilename, distance and dataURI (the other columns
\* are carried along)
FilterRow(prov, desc, fn, dist, uri) ==
    [obs_id |-> 0, target_name |-> << >>, project |-> << >>, provenance_name |-> prov,
     sequence_number |-> None, distance |-> dist, description |-> desc,
     productFilename |-> fn, dataURI |-> uri, author |-> prov, observation |-> << >>]

FilterMenu ==
    { FilterRow(Lit.Kepler, Desc.TPLongQ5, <<"a",".","f","i","t","s">>, 0, DataURI.NoDate),
      FilterRow(Lit.Kepler, Desc.TPShortQ5, <<"b",".","f","i","t","s">>, 0, DataURI.Q5M1),
      FilterRow(Lit.Kepler, Desc.TPLongQ15, <<"a",".","f","i","t","s">>, 1, DataURI.NoDate),
      FilterRow(Lit.kepler, Desc.TPQ5, <<"c",".","F","I","T","S">>, 0, DataURI.NoDate),
      FilterRow(Lit.K2, Desc.LCLongC1, <<"a",".","f","i","t","s",".","g","z">>, 1, DataURI.NoDate),
      FilterRow(Lit.K2, Desc.TPShortC1, <<"b","f","i","t","s">>, 0, DataURI.NoDate),
      FilterRow(Lit.SPOC, Desc.SpocTP, <<"b",".","f","i","t","s">>, 0, DataURI.NoDate),
      FilterRow(<<"K","2","S","F","F">>, Desc.LCLongC1, <<"a",".","t","x","t">>, 0, DataURI.NoDate) }

FilterTables == UNION { [1..n -> FilterMenu] : n \in 0..MaxRows }

CadenceMenu == { Lit.short, Lit.sc, Lit.long, Lit.any, Lit.both }

FiletypeMenu == { Lit.TargetPixel, Lit.Lightcurve }

ProvenanceMenu ==
    { DefaultProvenance, ProvenanceList(<<Lit.Kepler>>), ProvenanceList(<<Lit.K2, Lit.SPOC>>) }

QuarterMenu == { NoArg, IntArg(5), ListArg(<<5, 15>>) }

LimitMenu == { None } \cup { Some(n) : n \in 0..MaxLimit }

\* a call _filter_products(products, ...)
InitFilter ==
    /\ pc = "filter_products"
    /\ entry = "_filter_products"
    /\ products \in FilterTables
    /\ cadence \in CadenceMenu
    /\ filetype \in FiletypeMenu
    /\ provenance_name \in ProvenanceMenu
    /\ quarter \in QuarterMenu
    /\ campaign \in {NoArg, IntArg(1)}
    /\ sector \in {NoArg, IntArg(1)}
    /\ IsNone(campaign) \/ IsNone(sector)
    /\ month = NoArg
    /\ limit \in LimitMenu
    \* a limit is combined with the default authors and no quarter, campaign
    \* or sector: the slice of line 952 does not look at how the mask was made
    /\ \/ limit = None
       \/ /\ provenance_name = DefaultProvenance
          /\ IsNone(quarter) /\ IsNone(campaign) /\ IsNone(sector)
    /\ target = StrTarget(<< >>)
    /\ radius = None
    /\ sequence_number = NoArg
    /\ log = << >>
    /\ exact_target_name = None
    /\ observations = << >>
    /\ result = << >>
    /\ outcome = "none"
    /\ NoDownload

\* the call of _filter_products: it returns a table or raises
filter_products_call ==
    /\ pc = "filter_products"
    /\ \E out \in filter_products(products, campaign, quarter, month, sector, cadence,
                                  limit, provenance_name, filetype) :
          IF out.err = "none"
          THEN /\ result' = out.table
               /\ outcome' = "returned"
               /\ pc' = "filtered"
          ELSE /\ result' = result
               /\ outcome' = out.err
               /\ pc' = "raised"
    /\ UNCHANGED <<entry, target, radius, filetype, cadence, provenance_name, quarter,
                   month, campaign, sector, limit, sequence_number, log,
                   exact_target_name, observations, products>>
    /\ UNCHANGED download_vars

NextFilter == filter_products_call

SpecFilter == InitFilter /\ [][NextFilter]_vars

\* the rows a call with a month filter is checked on: short-cadence Kepler
\* rows of quarter 5 dated to its months 1 and 2, one of quarter 1 that
\* carries the date of quarter 5 month 1, one whose description names no
\* quarter, a long-cadence Kepler row and a SPOC row
MonthFilterMenu ==
    { FilterRow(Lit.Kepler, Desc.TPShortQ5, <<"b",".","f","i","t","s">>, 0, DataURI.Q5M1),
      FilterRow(Lit.Kepler, Desc.TPShortQ5, <<"c",".","f","i","t","s">>, 0, DataURI.Q5M2),
      FilterRow(Lit.Kepler, Desc.TPShortQ1, <<"d",".","f","i","t","s">>, 0, DataURI.Q5M1),
      FilterRow(Lit.Kepler, Desc.TPShort, <<"e",".","f","i","t","s">>, 0, DataURI.Q5M1),
      FilterRow(Lit.Kepler, Desc.TPLongQ5, <<"a",".","f","i","t","s">>, 0, DataURI.NoDate),
      FilterRow(Lit.SPOC, Desc.SpocTP, <<"b",".","f","i","t","s">>, 0, DataURI.NoDate) }

\* the month argument: None, a month of the lookup table, a month that is
\* not in it, a list of months
MonthMenu == { NoArg, IntArg(1), IntArg(4), ListArg(<<1, 2>>) }

\* a call _filter_products(products, month=..., cadence=..., ...)
InitMonth ==
    /\ pc = "filter_products"
    /\ entry = "_filter_products"
    /\ products \in UNION { [1..n -> MonthFilterMenu] : n \in 0..MaxRows }
    /\ cadence \in { Lit.short, Lit.long, Lit.any }
    /\ filetype = Lit.TargetPixel
    /\ provenance_name = DefaultProvenance
    /\ quarter \in { NoArg, IntArg(5) }
    /\ campaign = NoArg
    /\ sector = NoArg
    /\ month \in MonthMenu
    /\ limit \in LimitMenu
    /\ target = StrTarget(<< >>)
    /\ radius = None
    /\ sequence_number = NoArg
    /\ log = << >>
    /\ exact_target_name = None
    /\ observations = << >>
    /\ result = << >>
    /\ outcome = "none"
    /\ NoDownload

SpecMonth == InitMonth /\ [][NextFilter]_vars

-----------------------------------------------------------------------------
(* Properties of _filter_products                                          *)

\* the rows of a table
Rows(t) == { t[i] : i \in 1..Len(t) }

\* the number of times row r occurs in table t
Count(t, r) == Cardinality({ i \in 1..Len(t) : t[i] = r })

\* the family of a row
IsKepler(r) == lower(r.provenance_name) = <<"k","e","p","l","e","r">>

IsK2(r) == lower(r.provenance_name) = <<"k","2">>

IsSpoc(r) == lower(r.provenance_name) = <<"s","p","o","c">>

\* C6: no row returned by _filter_products has a productFilename that fails
\* to end, case-insensitively, in ".fits" or ".fits.gz" (dot included).
C6_FitsSuffix ==
    pc = "filtered" =>
        \A r \in Rows(result) :
            \/ endswith(lower(r.productFilename), <<".","f","i","t","s">>)
            \/ endswith(lower(r.productFilename), <<".","f","i","t","s",".","g","z">>)

\* C7: a Kepler or K2 row returned by _filter_products has a description
\* containing "<filetype> Short" when the cadence is 'short' or 'sc',
\* "<filetype>" when it is 'any' or 'both', and "<filetype> Long" for every
\* other cadence, the default 'long' included.
C7_CadenceText ==
    pc = "filtered" =>
        \A r \in Rows(result) :
            (IsKepler(r) \/ IsK2(r)) =>
                IF cadence \in { <<"s","h","o","r","t">>, <<"s","c">> }
                THEN contains(r.description, filetype \o <<" ","S","h","o","r","t">>)
                ELSE IF cadence \in { <<"a","n","y">>, <<"b","o","t","h">> }
                THEN contains(r.description, filetype)
                ELSE contains(r.description, filetype \o <<" ","L","o","n","g">>)

\* C7 witness: with cadence 'short' a short-cadence row was returned and a
\* long-cadence row of the same family and file type was dropped
C7_Witness ==
    /\ pc = "filtered"
    /\ cadence = <<"s","h","o","r","t">>
    /\ filetype = Lit.TargetPixel
    /\ \E r \in Rows(result) : IsKepler(r) /\ r.description = Desc.TPShortQ5
    /\ \E r \in Rows(products) : IsKepler(r) /\ r.description = Desc.TPLongQ5

\* C8: with a quarter requested and campaign and sector unset, no K2 row and
\* no SPOC row is returned, and every Kepler row returned has a description
\* that, lower-cased and with hyphens removed, ends in "q<N>" for one of
\* the requested quarters N.
C8_QuarterOnlyKepler ==
    (pc = "filtered" /\ ~IsNone(quarter) /\ IsNone(campaign) /\ IsNone(sector)) =>
        \A r \in Rows(result) :
            /\ ~IsK2(r)
            /\ ~IsSpoc(r)
            /\ IsKepler(r) =>
                  \E k \in 1..Len(quarter.items) :
                      LET d   == SelectSeq(lower(r.description), LAMBDA c : c # "-")
                          suf == <<"q">> \o IntToStr(quarter.items[k])
                      IN  Len(d) >= Len(suf) /\ SubSeq(d, Len(d) - Len(suf) + 1, Len(d)) = suf

\* C8 witness: quarter 5 was requested over a table with a quarter-5 Kepler
\* row, which is returned, and a K2 row, which is dropped
C8_Witness ==
    /\ pc = "filtered"
    /\ quarter = IntArg(5) /\ IsNone(campaign) /\ IsNone(sector)
    /\ \E r \in Rows(products) : IsK2(r) /\ r.description = Desc.TPShortC1
    /\ \E r \in Rows(result) : IsKepler(r) /\ r.description = Desc.TPShortQ5
    /\ \A r \in Rows(result) : ~IsK2(r)

C10_Passing ==
    select_rows(products, filter_mask(products, campaign, quarter, month, sector,
                                      cadence, provenance_name, filetype).mask)

\* C10: with limit=N, when more than N rows pass the filters exactly N rows
\* are returned, and they are the first N of the passing rows in (distance,
\* productFilename) order: in that order themselves, and no passing row
\* left out comes before a returned one; when at most N rows pass, all of
\* them are returned.
C10_Limit ==
    (pc = "filtered" /\ limit # None) =>
        LET N    == Val(limit)
            full == C10_Passing
            before(a, b) ==
                \/ a.distance < b.distance
                \/ a.distance = b.distance /\ str_le(a.productFilename, b.productFilename)
        IN  /\ Len(full) > N => Len(result) = N
            /\ Len(full) <= N => Len(result) = Len(full)
            /\ \A r \in Rows(result) : Count(result, r) <= Count(full, r)
            /\ \A i \in 1..(Len(result) - 1) : before(result[i], result[i + 1])
            /\ \A x \in Rows(full) :
                  Count(full, x) > Count(result, x) =>
                      \A i \in 1..Len(result) : before(result[i], x)

\* C10 witness: two rows pass, the limit is 1, and the one returned is the
\* row that was handed over second
C10_Witness ==
    /\ pc = "filtered"
    /\ limit = Some(1)
    /\ Len(C10_Passing) = 2
    /\ Len(result) = 1
    /\ result[1] = products[2] /\ products[1] # products[2]

\* the family selection of the call: the mask of lines 919-941 over products
C21_Selected ==
    family_mask(products, campaign, quarter, month, sector, cadence, provenance_name,
                filetype).mask

\* the family f is among the requested authors
C21_Requested(f) ==
    \/ provenance_name.kind = "none"
    \/ \E k \in 1..Len(provenance_name.items) : lower(provenance_name.items[k]) = f

\* the text the description of a Kepler or K2 row must contain
C21_CadenceText ==
    IF cadence \in { <<"s","h","o","r","t">>, <<"s","c">> }
    THEN filetype \o <<" ","S","h","o","r","t">>
    ELSE IF cadence \in { <<"a","n","y">>, <<"b","o","t","h">> } THEN filetype
    ELSE filetype \o <<" ","L","o","n","g">>

\* the predicate of the family of row r
C21_Matches(r) ==
    IF IsKepler(r)
    THEN /\ contains(r.description, C21_CadenceText)
         /\ IsNone(quarter) \/
               \E k \in 1..Len(quarter.items) :
                   endswith(SelectSeq(lower(r.description), LAMBDA c : c # "-"),
                            <<"q">> \o IntToStr(quarter.items[k]))
    ELSE IF IsK2(r) THEN contains(r.description, C21_CadenceText)
    ELSE contains(r.description,
                  IF filetype = <<"L","i","g","h","t","c","u","r","v","e">>
                  THEN <<"L","i","g","h","t"," ","c","u","r","v","e","s">>
                  ELSE <<"T","a","r","g","e","t"," ","p","i","x","e","l"," ","f","i","l","e","s">>)

\* C21: a row passes the family selection of _filter_products if and only
\* if (a) its provenance is Kepler, K2 or SPOC, that family is among the
\* requested authors, no quarter/campaign/sector filter of another family
\* is set and the row matches the predicate of its family, or (b) its
\* provenance is none of the three; and without a limit the rows returned
\* are the rows that pass and have a FITS file name.
C21_FamilySelection ==
    (pc = "filtered" /\ IsNone(month)) =>
      LET selected == C21_Selected
          fits     == fits_mask(products)
      IN
        /\ \A i \in 1..Len(products) :
              LET r == products[i]
              IN  selected[i] <=>
                    \/ /\ IsKepler(r) /\ C21_Requested(<<"k","e","p","l","e","r">>)
                       /\ IsNone(campaign) /\ IsNone(sector) /\ C21_Matches(r)
                    \/ /\ IsK2(r) /\ C21_Requested(<<"k","2">>)
                       /\ IsNone(quarter) /\ IsNone(sector) /\ C21_Matches(r)
                    \/ /\ IsSpoc(r) /\ C21_Requested(<<"s","p","o","c">>)
                       /\ IsNone(quarter) /\ IsNone(campaign) /\ C21_Matches(r)
                    \/ ~IsKepler(r) /\ ~IsK2(r) /\ ~IsSpoc(r)
        /\ limit = None =>
              Rows(result) = { products[i] : i \in { j \in 1..Len(products) :
                                                      selected[j] /\ fits[j] } }

\* C21 witness: only Kepler was requested over a K2 row that matches the
\* cadence and file type, which is dropped, and a row of another
\* provenance, which passes the family selection
C21_Witness ==
    /\ pc = "filtered"
    /\ provenance_name = ProvenanceList(<<Lit.Kepler>>)
    /\ Len(products) = 2
    /\ IsK2(products[1]) /\ C21_Matches(products[1]) /\ ~C21_Selected[1]
    /\ products[2].provenance_name = <<"K","2","S","F","F">> /\ C21_Selected[2]

\* a short-cadence Kepler row
C22_Short(r) == IsKepler(r) /\ contains(r.description, <<"S","h","o","r","t">>)

\* C22: with month set, a short-cadence Kepler row survives only if the
\* date in its data URI is the lookup table's start date for (the quarter
\* of the row, m) for a requested month m; a requested (quarter, month) pair
\* that is not in the lookup table permits no date and raises no error
\* (the call raises only for a short-cadence row whose description or URI
\* cannot be parsed); and the rows that are not short-cadence are the ones
\* the call keeps without the month filter.
C22_MonthFilter ==
    ~IsNone(month) =>
        /\ pc = "filtered" =>
              \A r \in Rows(result) :
                  C22_Short(r) =>
                      \E m \in 1..Len(month.items) : \E k \in 1..Len(MonthLookup) :
                          /\ MonthLookup[k].Month = month.items[m]
                          /\ MonthLookup[k].Quarter = description_quarter(r.description).val
                          /\ MonthLookup[k].StartTime = uri_date(r.dataURI)
        /\ pc = "raised" =>
              \E i \in 1..Len(products) :
                  C22_Short(products[i]) /\ month_row_error(products[i]) # "none"
        /\ (pc = "filtered" /\ limit = None) =>
              \A out \in filter_products(products, campaign, quarter, NoArg, sector,
                                          cadence, limit, provenance_name, filetype) :
                  \A r \in Rows(products) :
                      ~C22_Short(r) => Count(result, r) = Count(out.table, r)

\* C22 witness: month 1 was requested over two short-cadence rows of
\* quarter 5, the first dated to month 2 and the second to month 1, and
\* only the second is returned
C22_Witness ==
    /\ pc = "filtered"
    /\ month = IntArg(1) /\ cadence = Lit.short
    /\ Len(products) = 2
    /\ products[1].description = Desc.TPShortQ5 /\ products[1].dataURI = DataURI.Q5M2
    /\ products[2].description = Desc.TPShortQ5 /\ products[2].dataURI = DataURI.Q5M1
    /\ result = <<products[2]>>

\* the SPOC rows of a table, in its order
C24_SpocRows(t) == SelectSeq(t, LAMBDA r : IsSpoc(r))

-----------------------------------------------------------------------------
(* The search entry points and _search_products                            *)

\* the author argument: None, one name, or a list of names
ProvenanceStr(x) == [kind |-> "str", items |-> <<x>>]

\* lines 680-684: "any", "all" and None mean no filter on the provenance
normalize_provenance(pn) ==
    IF pn.kind = "none" \/ (pn.kind = "str" /\ pn.items[1] \in {Lit.any, Lit.all})
    THEN NoProvenance
    ELSE ProvenanceList(pn.items)

\* a warning that tests 200000000 < target in its second branch
ambiguity_warning_two_ranges(t) ==
    IF t.kind # "int" THEN FALSE
    ELSE IF 0 < t.val /\ t.val < 13161030 THEN TRUE
    ELSE IF 200000000 < t.val /\ t.val < 251813739 THEN TRUE
    ELSE FALSE

\* lines 667-675: whether log.warning is called for the target
ambiguity_warning(t) ==
    IF t.kind # "int" THEN FALSE
    ELSE IF 0 < t.val /\ t.val < 13161030 THEN TRUE
    ELSE IF 0 < 200000000 /\ t.val < 251813739 THEN TRUE
    ELSE FALSE

\* line 700: `campaign or sector`
campaign_or_sector(c, s) == IF ArgTruthy(c) THEN c ELSE s

\* one row of the product list
Product(id, desc, fn, uri) ==
    [obs_id |-> id, description |-> desc, productFilename |-> fn, dataURI |-> uri]

\* the products the remote service may list, by observation
ProductMenu ==
    { Product(1, Desc.TPLongQ5, <<"a",".","f","i","t","s">>, DataURI.NoDate),
      Product(1, Desc.TPShortQ5, <<"c",".","f","i","t","s">>, DataURI.Q5M1),
      Product(1, Desc.TPShort, <<"b",".","f","i","t","s">>, DataURI.Q5M2),
      Product(2, Desc.SpocTP, <<"d",".","f","i","t","s">>, DataURI.NoDate) }

\* get_product_list(observations): at most MaxProducts products of the
\* observations handed over
ProductAnswers(obs) ==
    { a \in SUBSET { q \in ProductMenu : \E i \in 1..Len(obs) : obs[i].obs_id = q.obs_id } :
        Cardinality(a) <= MaxProducts }

\* lines 720-733: the text of the 'observation' column
observation_label(project, seqno, description) ==
    LET obs_prefix ==
            IF project = Lit.Kepler THEN <<"Q","u","a","r","t","e","r">>
            ELSE IF project = Lit.K2 THEN <<"C","a","m","p","a","i","g","n">>
            ELSE IF project = Lit.TESS THEN <<"S","e","c","t","o","r">>
            ELSE << >>
        obs_seqno ==
            IF project = Lit.Kepler /\ seqno = None THEN findall_Q(description)
            ELSE IF seqno = None THEN <<"-","-">>
            ELSE IntToStr(Val(seqno))
    IN  project \o <<" ">> \o obs_prefix \o <<" ">> \o obs_seqno

\* a row of the right join on obs_id, with the 'author' and 'observation'
\* columns of lines 716-733
JoinRow(o, q) ==
    [obs_id |-> q.obs_id, target_name |-> o.target_name, project |-> o.project,
     provenance_name |-> o.provenance_name, sequence_number |-> o.sequence_number,
     distance |-> o.distance, description |-> q.description,
     productFilename |-> q.productFilename, dataURI |-> q.dataURI,
     author |-> o.provenance_name,
     observation |-> observation_label(o.project, o.sequence_number, q.description)]

\* lines 712-713: the rows of the right join on obs_id (every product
\* listed belongs to one of the observations)
join(obs, prods) ==
    { JoinRow(m[1], m[2]) :
        m \in { m \in { obs[i] : i \in 1..Len(obs) } \X prods : m[1].obs_id = m[2].obs_id } }

\* the order of result.sort(['distance', 'obs_id'])
by_distance_obs_id(a, b) ==
    a.distance < b.distance \/ (a.distance = b.distance /\ a.obs_id <= b.obs_id)

\* the tables a set of distinct rows may be laid out as
TablesOf(rows) ==
    { t \in [1..Cardinality(rows) -> rows] : \A r \in rows : \E i \in 1..Cardinality(rows) : t[i] = r }

\* line 714: result.sort(['distance', 'obs_id']) on the joined rows
sort_by_distance_obs_id(rows) ==
    { s \in TablesOf(rows) : \A i \in 1..(Len(s) - 1) : by_distance_obs_id(s[i], s[i + 1]) }

\* SearchResult(table): the table with its '#' column (_add_columns)
SearchResult(t) ==
    [i \in 1..Len(t) |->
        [f \in DOMAIN t[i] \cup {"index"} |-> IF f = "index" THEN i - 1 ELSE t[i][f]]]

\* lines 755-765: the placeholder row of a cutout of sector s
CutoutRow(t, s) ==
    [target_name |-> Str(t), project |-> Lit.TESS,
     provenance_name |-> <<"M","A","S","T">>, sequence_number |-> s, distance |-> 0,
     description |-> <<"T","E","S","S"," ","F","F","I"," ","C","u","t","o","u","t"," ","(","s","e","c","t","o","r"," ">>
                       \o (IF s = None THEN <<"-","-">> ELSE IntToStr(Val(s))) \o <<")">>,
     productFilename |-> <<"T","E","S","S","C","u","t">>,
     author |-> <<"M","A","S","T">>, targetid |-> Str(t), obs_collection |-> Lit.TESS,
     observation |-> <<"T","E","S","S"," ","S","e","c","t","o","r"," ">>
                       \o (IF s = None THEN <<"-","-">> ELSE IntToStr(Val(s)))]

\* line 754: `s in np.atleast_1d(sector) or sector is None`
sector_wanted(s, sector_) ==
    \/ s # None /\ \E k \in 1..Len(atleast_1d(sector_)) : atleast_1d(sector_)[k] = Val(s)
    \/ IsNone(sector_)

\* lines 746-766: the cutout rows, in the order of the observations
cutouts(obs, t, sector_) ==
    LET F[i \in 0..Len(obs)] ==
            IF i = 0 THEN << >>
            ELSE IF /\ contains(obs[i].target_name, <<"T","E","S","S"," ","F","F","I">>)
                    /\ sector_wanted(obs[i].sequence_number, sector_)
                 THEN Append(F[i - 1], CutoutRow(t, obs[i].sequence_number))
                 ELSE F[i - 1]
    IN  F[Len(obs)]

\* the order of masked_result.sort(['distance', 'sequence_number'])
by_distance_sequence_number(a, b) ==
    \/ a.distance < b.distance
    \/ a.distance = b.distance /\ Val(a.sequence_number) <= Val(b.sequence_number)

\* line 770: masked_result.sort(['distance', 'sequence_number'])
sort_by_distance_sequence_number(t) ==
    { s \in Orders(t) :
        \A i \in 1..(Len(s) - 1) : by_distance_sequence_number(s[i], s[i + 1]) }

EntryPoints == {"search_targetpixelfile", "search_lightcurve", "search_tesscut"}

SearchIntMenu == { 0, 1, 13161029, 13161030, 251813738, 251813739 }

SearchTargets ==
    { IntTarget(n) : n \in SearchIntMenu }
      \cup { StrTarget(<<"K","I","C"," ","7">>),
             StrTarget(<<"K","e","p","l","e","r","-","1","0">>),
             CoordTarget(<<"2","8","5",".","5">>, <<"5","0",".","2","5">>) }

AuthorMenu == { DefaultProvenance, ProvenanceStr(Lit.any) }

\* before any call
Init ==
    /\ pc = "idle"
    /\ entry = "none"
    /\ target = StrTarget(<< >>)
    /\ radius = None
    /\ filetype = Lit.Lightcurve
    /\ cadence = Lit.long
    /\ provenance_name = DefaultProvenance
    /\ quarter = NoArg /\ month = NoArg /\ campaign = NoArg /\ sector = NoArg
    /\ limit = None
    /\ sequence_number = NoArg
    /\ log = << >>
    /\ exact_target_name = None
    /\ observations = << >>
    /\ products = << >>
    /\ result = << >>
    /\ outcome = "none"
    /\ NoDownload

\* the arguments of search_targetpixelfile and search_lightcurve
SearchCall(name, ft) ==
    /\ pc = "idle"
    /\ entry' = name
    /\ filetype' = ft
    /\ target' \in SearchTargets
    /\ radius' \in { None, Some(BareRadius(10)) }
    /\ cadence' \in { Lit.long, Lit.short }
    /\ provenance_name' \in AuthorMenu
    /\ quarter' = NoArg
    /\ month' \in { NoArg, IntArg(1) }
    /\ campaign' \in { NoArg, IntArg(0), IntArg(1) }
    /\ sector' \in { NoArg, IntArg(1) }
    /\ IsNone(campaign') \/ IsNone(sector')
    /\ limit' = None
    /\ pc' = "search_products"
    /\ UNCHANGED <<sequence_number, log, exact_target_name, observations, products,
                   result, outcome>>
    /\ UNCHANGED download_vars

\* lines 475-481: search_targetpixelfile calls _search_products
search_targetpixelfile == SearchCall("search_targetpixelfile", Lit.TargetPixel)

\* lines 581-586: search_lightcurve calls _search_products
search_lightcurve == SearchCall("search_lightcurve", Lit.Lightcurve)

\* lines 619-620: search_tesscut calls _search_products with the defaults
search_tesscut ==
    /\ pc = "idle"
    /\ entry' = "search_tesscut"
    /\ filetype' = Lit.ffi
    /\ target' \in SearchTargets
    /\ sector' \in { NoArg, IntArg(1), ListArg(<<1, 2>>) }
    /\ radius' = None
    /\ cadence' = Lit.long
    /\ provenance_name' = DefaultProvenance
    /\ quarter' = NoArg /\ month' = NoArg /\ campaign' = NoArg
    /\ limit' = None
    /\ pc' = "search_products"
    /\ UNCHANGED <<sequence_number, log, exact_target_name, observations, products,
                   result, outcome>>
    /\ UNCHANGED download_vars

\* a beginning that leaves the radius of the full-frame-image path as given
search_products_begin_keep_radius ==
    /\ pc = "search_products"
    /\ log' = IF ambiguity_warning(target)
              THEN Append(log, Event("warning", Str(target), NoArg, None, 0))
              ELSE log
    /\ provenance_name' = normalize_provenance(provenance_name)
    /\ radius' = radius
    /\ sequence_number' = campaign_or_sector(campaign, sector)
    /\ pc' = "query_mast"
    /\ UNCHANGED <<entry, target, filetype, cadence, quarter, month, campaign, sector,
                   limit, exact_target_name, observations, products, result, outcome>>
    /\ UNCHANGED download_vars

\* lines 667-701: the warning, the normalised provenance, the radius of the
\* full-frame-image path and the arguments of _query_mast
search_products_begin ==
    /\ pc = "search_products"
    /\ log' = IF ambiguity_warning(target)
              THEN Append(log, Event("warning", Str(target), NoArg, None, 0))
              ELSE log
    /\ provenance_name' = normalize_provenance(provenance_name)
    /\ radius' = IF lower(filetype) = Lit.ffi /\ radius = None THEN Some(DefaultRadius) ELSE radius
    /\ sequence_number' = campaign_or_sector(campaign, sector)
    /\ pc' = "query_mast"
    /\ UNCHANGED <<entry, target, filetype, cadence, quarter, month, campaign, sector,
                   limit, exact_target_name, observations, products, result, outcome>>
    /\ UNCHANGED download_vars

\* lines 705-706: no observation was found
search_products_no_data ==
    /\ pc = "qm_returned" /\ entry \in EntryPoints
    /\ Len(observations) = 0
    /\ outcome' = "SearchError"
    /\ pc' = "raised"
    /\ UNCHANGED <<entry, target, radius, filetype, cadence, provenance_name, quarter,
                   month, campaign, sector, limit, sequence_number, log,
                   exact_target_name, observations, products, result>>
    /\ UNCHANGED download_vars

\* lines 708-742: the product list, the join, the sort, the new columns and
\* the filter.  The product list is answered or the request fails; the
\* filter returns a table or raises.
search_products_join ==
    /\ pc = "qm_returned" /\ entry \in EntryPoints
    /\ Len(observations) # 0
    /\ lower(filetype) # Lit.ffi
    /\ \/ \E prods \in ProductAnswers(observations) :
          \E joined \in sort_by_distance_obs_id(join(observations, prods)) :
             /\ log' = Append(log, Event("get_product_list", << >>, NoArg, None,
                                         Cardinality(prods)))
             /\ products' = joined
             /\ \E out \in filter_products(joined, campaign, quarter, month, sector,
                                           cadence, limit, provenance_name, filetype) :
                   IF out.err = "none"
                   THEN /\ result' = SearchResult(out.table)
                        /\ outcome' = outcome
                        /\ pc' = "returned"
                   ELSE /\ result' = result
                        /\ outcome' = out.err
                        /\ pc' = "raised"
       \/ /\ log' = Append(log, Event("get_product_list", << >>, NoArg, None, -1))
          /\ outcome' = "RemoteServiceError"
          /\ pc' = "raised"
          /\ UNCHANGED <<products, result>>
    /\ UNCHANGED <<entry, target, radius, filetype, cadence, provenance_name, quarter,
                   month, campaign, sector, limit, sequence_number, exact_target_name,
                   observations>>
    /\ UNCHANGED download_vars

\* lines 744-773: the full-frame-image path
search_products_ffi ==
    /\ pc = "qm_returned" /\ entry \in EntryPoints
    /\ Len(observations) # 0
    /\ lower(filetype) = Lit.ffi
    /\ \E sorted \in sort_by_distance_sequence_number(
                         cutouts(observations, target, sector)) :
          result' = SearchResult(sorted)
    /\ pc' = "returned"
    /\ UNCHANGED <<entry, target, radius, filetype, cadence, provenance_name, quarter,
                   month, campaign, sector, limit, sequence_number, log,
                   exact_target_name, observations, products, outcome>>
    /\ UNCHANGED download_vars

\* an except clause that catches every exception
search_except_catch_all ==
    /\ pc = "raised" /\ entry \in EntryPoints
    /\ log' = Append(log, Event("log_error", << >>, NoArg, None, 0))
    /\ result' = << >>
    /\ pc' = "returned"
    /\ UNCHANGED <<entry, target, radius, filetype, cadence, provenance_name, quarter,
                   month, campaign, sector, limit, sequence_number, exact_target_name,
                   observations, products, outcome>>
    /\ UNCHANGED download_vars

\* lines 482-484, 587-589, 621-623: `except SearchError` logs the error and
\* returns SearchResult(None); any other exception leaves the entry point
search_except ==
    /\ pc = "raised" /\ entry \in EntryPoints
    /\ IF outcome = "SearchError"
       THEN /\ log' = Append(log, Event("log_error", << >>, NoArg, None, 0))
            /\ result' = << >>
            /\ pc' = "returned"
       ELSE /\ log' = log
            /\ result' = result
            /\ pc' = "propagated"
    /\ UNCHANGED <<entry, target, radius, filetype, cadence, provenance_name, quarter,
                   month, campaign, sector, limit, sequence_number, exact_target_name,
                   observations, products, outcome>>
    /\ UNCHANGED download_vars

Next ==
    \/ search_targetpixelfile
    \/ search_lightcurve
    \/ search_tesscut
    \/ search_products_begin
    \/ query_mast_resolve
    \/ query_exact
    \/ query_cone
    \/ search_products_no_data
    \/ search_products_join
    \/ search_products_ffi
    \/ search_except

Spec == Init /\ [][Next]_vars

-----------------------------------------------------------------------------
(* Properties of the entry points and _search_products                     *)

\* a warning precedes the i-th record of the log
WarnedBefore(i) == \E j \in 1..(i - 1) : log[j].op = "warning"

\* C3 as claimed: for every bare integer target, whatever its value, an
\* ambiguity warning is emitted before the remote query is issued.
C3_AlwaysWarned ==
    target.kind = "int" =>
        \A i \in 1..Len(log) :
            log[i].op \in {"query_exact", "query_cone"} => WarnedBefore(i)

\* C3 as amended: for a bare integer target below 251813739 (zero and the
\* negative integers included) an ambiguity warning is emitted before the
\* remote query is issued; for a bare integer of 251813739 or more no
\* warning is emitted.
C3_WarnedBelowBound ==
    target.kind = "int" =>
        \A i \in 1..Len(log) :
            log[i].op \in {"query_exact", "query_cone"} =>
                (WarnedBefore(i) <=> target.val < 251813739)

\* C3 witness: the search for the bare integer 13161030 has warned and then
\* issued its cone search
C3_Witness ==
    /\ target = IntTarget(13161030)
    /\ Len(log) >= 2
    /\ log[1].op = "warning"
    /\ log[2].op = "query_cone"

\* the call of the entry point has ended
EntryEnded == pc \in {"returned", "propagated"}

\* C5 as claimed: an entry point never lets a failure of the search out;
\* whenever the search underneath failed, it returns a SearchResult of
\* length 0.
C5_NeverPropagates ==
    /\ pc # "propagated"
    /\ (pc = "returned" /\ outcome # "none") => Len(result) = 0

\* C5 as amended: when the search underneath fails with a SearchError (the
\* name cannot be resolved, or no observation was found) the entry point
\* returns a SearchResult of length 0; every other failure raised while
\* querying, joining or filtering leaves the entry point as an exception.
C5_SearchErrorCaught ==
    EntryEnded =>
        /\ outcome = "SearchError" => (pc = "returned" /\ Len(result) = 0)
        /\ outcome \notin {"none", "SearchError"} => pc = "propagated"

\* C5 witness: no observation was found, SearchError was raised and the
\* entry point returned an empty result
C5_Witness ==
    /\ pc = "returned"
    /\ outcome = "SearchError"
    /\ Len(observations) = 0
    /\ Len(Queries) > 0 /\ Queries[Len(Queries)].rows = 0
    /\ log[Len(log)].op = "log_error"
    /\ Len(result) = 0

\* the sectors kept by the full-frame-image path: the sequence numbers of
\* the observations whose target_name contains 'TESS FFI', when no sector
\* was requested or the number is among the requested ones
C17_KeptSectors ==
    { Val(observations[i].sequence_number) :
        i \in { j \in 1..Len(observations) :
                  /\ contains(observations[j].target_name, <<"T","E","S","S"," ","F","F","I">>)
                  /\ \/ IsNone(sector)
                     \/ \E k \in 1..Len(sector.items) :
                           sector.items[k] = Val(observations[j].sequence_number) } }

\* C17 as claimed: in the full-frame-image path the result has exactly one
\* placeholder row per kept sector, in ascending sector order, and is an
\* empty SearchResult when no sector is kept.
C17_OneRowPerSector ==
    (pc = "returned" /\ lower(filetype) = Lit.ffi /\ outcome = "none") =>
        /\ Len(result) = Cardinality(C17_KeptSectors)
        /\ \A s \in C17_KeptSectors :
              Cardinality({ i \in 1..Len(result) : result[i].sequence_number = Some(s) }) = 1
        /\ \A i \in 1..(Len(result) - 1) :
              Val(result[i].sequence_number) <= Val(result[i + 1].sequence_number)

\* C18 as claimed: a search with a month filter never aborts because of a
\* description or a data URI it cannot parse: it still returns a result.
C18_MonthFilterNeverAborts ==
    (~IsNone(month) /\ EntryEnded) => outcome \notin {"ValueError", "IndexError"}

\* C23 as claimed: whenever a campaign or a sector is requested, the value 0
\* included, every remote metadata query carries that value as its
\* sequence_number criterion (the campaign when both are given); the
\* criterion is left out only when campaign and sector are both None.
C23_CriterionSent ==
    \A i \in 1..Len(log) :
        log[i].op \in {"query_exact", "query_cone"} =>
            log[i].seqno = (IF ~IsNone(campaign) THEN campaign
                            ELSE IF ~IsNone(sector) THEN sector
                            ELSE NoArg)

\* C25: search_tesscut always performs a cone search: whatever the target,
\* a mission-prefixed identifier included, no query by exact target_name
\* and no product-list request is ever issued, and every metadata query is
\* a cone search with the radius the full-frame-image path has set.
C25_TesscutConeOnly ==
    entry = "search_tesscut" =>
        /\ \A i \in 1..Len(log) :
              /\ log[i].op \notin {"query_exact", "get_product_list"}
              /\ log[i].op = "query_cone" => log[i].radius = Some(QuantityRadius(1))
        /\ pc \in {"qm_resolved", "qm_cone", "qm_returned", "returned"} => radius # None

\* C25 witness: search_tesscut for 'KIC 7', which has an exact target_name,
\* has returned cutout rows after a single query, a cone search
\* (Queries: the metadata queries of the log)
C25_Witness ==
    /\ entry = "search_tesscut" /\ pc = "returned"
    /\ Truthy(exact_target_name)
    /\ Len(result) > 0
    /\ Len(log) = 1 /\ log[1].op = "query_cone" /\ log[1].rows > 0

-----------------------------------------------------------------------------
(* SearchResult.download, download_all and the cutout cache                *)

\* most rows of a SearchResult that is downloaded
MaxDownloadRows == 2

\* most download calls made one after the other on a SearchResult
MaxCalls == 2

\* a path is the sequence of its components
HomeCache == <<"~", ".lightkurve-cache">>

CurrentDir == <<".">>

\* os.path.join(d, name)
path_join(d, name) == Append(d, name)

\* the cutout_size argument: an int or a float n (y = x = n) or a (y, x)
\* tuple
CutoutSize(kind, y_, x_) == [kind |-> kind, y |-> y_, x |-> x_]

\* line 303-317, _default_download_dir: ~/.lightkurve-cache, created when it
\* is missing, or '.' when it cannot be created
default_download_dir_no_fallback(dirs_, unmakeable_) ==
    [dir |-> HomeCache, dirs |-> dirs_,
     events |-> IF HomeCache \in dirs_ THEN <<"isdir">> ELSE <<"isdir", "mkdir">>,
     error |-> HomeCache \notin dirs_ /\ HomeCache \in unmakeable_]

default_download_dir(dirs_, unmakeable_) ==
    IF HomeCache \in dirs_
        THEN [dir |-> HomeCache, dirs |-> dirs_, events |-> <<"isdir">>, error |-> FALSE]
    ELSE IF HomeCache \in unmakeable_
        THEN [dir |-> CurrentDir, dirs |-> dirs_, events |-> <<"isdir", "mkdir", "warning">>,
              error |-> FALSE]
    ELSE [dir |-> HomeCache, dirs |-> dirs_ \cup {HomeCache}, events |-> <<"isdir", "mkdir">>,
          error |-> FALSE]

\* lines 344-351: the 'tesscut' subfolder of the download directory, created
\* when it is missing, or the download directory when it cannot be created
tesscut_dir_of(d, dirs_, unmakeable_) ==
    LET sub == path_join(d, "tesscut")
    IN  IF sub \in dirs_ THEN [dir |-> sub, dirs |-> dirs_]
        ELSE IF sub \in unmakeable_ THEN [dir |-> d, dirs |-> dirs_]
        ELSE [dir |-> sub, dirs |-> dirs_ \cup {sub}]

\* lines 340-341: cutout_size defaults to 5
size_or_default(cs) == IF cs = None THEN CutoutSize("int", 5, 5) ELSE Val(cs)

\* lines 360-363: the size text of the cache key, None when neither branch
\* assigns size_str
size_str(cs) ==
    IF cs.kind = "int" THEN Some(IntToStr(cs.x) \o <<"x">> \o IntToStr(cs.x))
    ELSE IF cs.kind = "tuple" THEN Some(IntToStr(cs.x) \o <<"x">> \o IntToStr(cs.y))
    ELSE None

\* str.find: the 0-based index of the first c in s, -1 when there is none
find(s, c) ==
    IF \E i \in 1..Len(s) : s[i] = c
    THEN (CHOOSE i \in 1..Len(s) : s[i] = c /\ \A j \in 1..(i - 1) : s[j] # c) - 1
    ELSE -1

\* lines 370-371: ra_string[:ra_string.find('.')+4]
coord_prefix(c) ==
    LET n == find(c, ".") + 4
    IN  SubSeq(c, 1, IF n < Len(c) THEN n ELSE Len(c))

\* lines 369-372: the parts of the glob pattern
\* <sector_name>_<ra prefix>*_<dec prefix>*_<size_str>_astrocut.fits
matchstring(sector_name, c, size) ==
    [sector_name |-> sector_name, ra |-> coord_prefix(c.ra), dec |-> coord_prefix(c.dec),
     size |-> size]

\* a cutout file <sector_name>_<ra>_<dec>_<size>_astrocut.fits in directory d
CutoutFile(d, sector_name, c, size) ==
    [dir |-> d, sector_name |-> sector_name, ra |-> c.ra, dec |-> c.dec, size |-> size]

\* a cache lookup that finds nothing
glob_nothing(fs, d, m) == {}

\* line 373: the files of directory d the pattern m matches
glob(fs, d, m) ==
    { f \in fs : /\ f.dir = d
                 /\ f.sector_name = m.sector_name
                 /\ startswith(f.ra, m.ra)
                 /\ startswith(f.dec, m.dec)
                 /\ f.size = m.size }

\* lines 140-150: the exception _download_one raises for a cutout failure
download_error(e) ==
    IF contains(e.msg, <<"5","0","4">>) THEN "HTTPError" ELSE "SearchError"

\* the variables of the search, which a download leaves alone
search_vars == <<target, radius, filetype, cadence, provenance_name, quarter, month,
                 campaign, sector, limit, sequence_number, exact_target_name,
                 observations, products>>

\* the arguments of the download calls and the environment they run in
download_args == <<download_dir, cutout_size, coords, unmakeable>>

\* a record of the log: a warning, a file-system access or a remote request
\* made in call number `calls` for row `idx`
Did(op, d, key) == [op |-> op, call |-> calls, row |-> idx, dir |-> d, key |-> key]

\* TesscutClass().get_sectors(coords): the sectors that cover the position
AvailableSectors == {1, 2}

\* the sectorName of a sector in the answer of get_sectors
SectorName(n) == <<"t","e","s","s","-","s">> \o IntToStr(n)

\* the positions _resolve_object (lines 1047-1050) may resolve the target to
CoordMenu ==
    { [ra |-> <<"8","4",".","2","9","1","1">>, dec |-> <<"-","8",".","4","6","9","1">>],
      [ra |-> <<"8","4",".","0">>, dec |-> <<"5",".","2","5">>] }

\* the failures of the cutout service and of the resolver: the cause and
\* the text of the exception
CutoutFailures ==
    { [cause |-> "GatewayTimeout", msg |-> <<"5","0","4"," ","G","a","t","e","w","a","y">>],
      [cause |-> "OutOfFootprint", msg |-> <<"n","o"," ","d","a","t","a">>],
      [cause |-> "BadRequest", msg |-> <<"4","0","0"," ","f","o","r"," ","8","4",".","5","0","4">>] }

\* the exceptions raised before the remote download: by _resolve_object, by
\* the sectorName lookup of line 359 and by the read of size_str at line 372
LookupFailures ==
    [ Resolver |-> [cause |-> "ResolverError",
                    msg |-> <<"u","n","r","e","s","o","l","v","e","d">>],
      SectorMissing |-> [cause |-> "IndexError", msg |-> <<"i","n","d","e","x"," ","0">>],
      SizeStrUnbound |-> [cause |-> "UnboundLocalError",
                          msg |-> <<"s","i","z","e","_","s","t","r">>] ]

\* the rows a downloaded SearchResult is made of: the cutout placeholder of
\* a sector that covers the position, the placeholder of one that does not,
\* and one product of the archive
DownloadRowMenu ==
    { CutoutRow(StrTarget(<<"x">>), Some(1)),
      CutoutRow(StrTarget(<<"x">>), Some(3)),
      [target_name |-> <<"k","p","l","r","0","0","0","0","0","0","0","0","7">>,
       project |-> Lit.Kepler, provenance_name |-> Lit.Kepler, sequence_number |-> None,
       distance |-> 0, description |-> Desc.TPLongQ5,
       productFilename |-> <<"a",".","f","i","t","s">>, author |-> Lit.Kepler,
       targetid |-> << >>, obs_collection |-> Lit.Kepler,
       observation |-> <<"K","e","p","l","e","r"," ","Q","u","a","r","t","e","r"," ","5">>] }

\* a SearchResult, the arguments of its download calls, and the file system
InitDownload ==
    /\ pc = "dl_idle"
    /\ entry = "none"
    /\ target = StrTarget(<< >>)
    /\ radius = None
    /\ filetype = Lit.Lightcurve
    /\ cadence = Lit.long
    /\ provenance_name = DefaultProvenance
    /\ quarter = NoArg /\ month = NoArg /\ campaign = NoArg /\ sector = NoArg
    /\ limit = None
    /\ sequence_number = NoArg
    /\ log = << >>
    /\ exact_target_name = None
    /\ observations = << >>
    /\ products = << >>
    /\ outcome = "none"
    /\ result \in { SearchResult(t) :
                       t \in UNION { [1..n -> DownloadRowMenu] : n \in 0..MaxDownloadRows } }
    /\ download_dir \in { None, Some(<<"data">>) }
    /\ cutout_size \in { None, Some(CutoutSize("int", 3, 3)), Some(CutoutSize("float", 3, 3)),
                         Some(CutoutSize("tuple", 2, 3)) }
    /\ coords \in { Some(c) : c \in CoordMenu }
    /\ \E fs \in { \* a fresh machine where every directory can be created
                    [dirs |-> {<<"data">>, CurrentDir}, unmakeable |-> {}, files |-> {}],
                    \* a machine where no missing directory can be created
                    [dirs |-> {<<"data">>, CurrentDir},
                     unmakeable |-> {HomeCache, path_join(CurrentDir, "tesscut"),
                                     path_join(<<"data">>, "tesscut")},
                     files |-> {}],
                    \* a cache that holds the default-size cutout of a
                    \* neighbouring position in sector 1
                    [dirs |-> {<<"data">>, CurrentDir, HomeCache,
                               path_join(HomeCache, "tesscut")},
                     unmakeable |-> {},
                     files |-> { CutoutFile(path_join(HomeCache, "tesscut"), SectorName(1),
                                            [ra |-> <<"8","4",".","2","9","1","5">>,
                                             dec |-> <<"-","8",".","4","6","9","9">>],
                                            <<"5","x","5">>) }] } :
          /\ dirs = fs.dirs
          /\ unmakeable = fs.unmakeable
          /\ files = fs.files
    /\ idx = 0 /\ fetched = << >> /\ retval = None /\ calls = 1
    /\ local_dir = None /\ tesscut_dir = None /\ path = None /\ exc = None

\* the value a download call returns
Returned(kind, items) == Some([kind |-> kind, items |-> items])

\* the row _download_one is handed: self.table[idx:idx+1]
row_slice(t, i) == t[i + 1]

\* download_all on an empty table answering an empty collection
download_all_empty_collection ==
    /\ pc = "dl_idle"
    /\ entry' = "download_all"
    /\ idx' = 0
    /\ fetched' = << >>
    /\ IF Len(result) = 0
       THEN /\ retval' = Returned("LightCurveCollection", << >>)
            /\ pc' = "dl_returned"
       ELSE /\ retval' = retval
            /\ pc' = "download_one"
    /\ UNCHANGED <<log, result, outcome, dirs, files, calls, local_dir, tesscut_dir, path, exc>>
    /\ UNCHANGED <<search_vars, download_args>>

\* download that cuts the table down to the row it fetches
download_truncating ==
    /\ pc = "dl_idle"
    /\ entry' = "download"
    /\ idx' = 0
    /\ fetched' = << >>
    /\ result' = IF Len(result) = 0 THEN result ELSE SubSeq(result, 1, 1)
    /\ IF Len(result) = 0
       THEN /\ log' = Append(log, Did("warning", None, None))
            /\ retval' = Returned("None", << >>)
            /\ pc' = "dl_returned"
       ELSE /\ log' = IF Len(result) # 1 THEN Append(log, Did("warning", None, None)) ELSE log
            /\ retval' = retval
            /\ pc' = "download_one"
    /\ UNCHANGED <<outcome, dirs, files, calls, local_dir, tesscut_dir, path, exc>>
    /\ UNCHANGED <<search_vars, download_args>>

\* download without the warning about the rows left out
download_silent ==
    /\ pc = "dl_idle"
    /\ entry' = "download"
    /\ idx' = 0
    /\ fetched' = << >>
    /\ IF Len(result) = 0
       THEN /\ log' = Append(log, Did("warning", None, None))
            /\ retval' = Returned("None", << >>)
            /\ pc' = "dl_returned"
       ELSE /\ log' = log
            /\ retval' = retval
            /\ pc' = "download_one"
    /\ UNCHANGED <<result, outcome, dirs, files, calls, local_dir, tesscut_dir, path, exc>>
    /\ UNCHANGED <<search_vars, download_args>>

\* lines 211-227, download: a warning and None for an empty table, else a
\* warning when there are several rows and the download of self.table[:1]
download ==
    /\ pc = "dl_idle"
    /\ entry' = "download"
    /\ idx' = 0
    /\ fetched' = << >>
    /\ IF Len(result) = 0
       THEN /\ log' = Append(log, Did("warning", None, None))
            /\ retval' = Returned("None", << >>)
            /\ pc' = "dl_returned"
       ELSE /\ log' = IF Len(result) # 1 THEN Append(log, Did("warning", None, None)) ELSE log
            /\ retval' = retval
            /\ pc' = "download_one"
    /\ UNCHANGED <<result, outcome, dirs, files, calls, local_dir, tesscut_dir, path, exc>>
    /\ UNCHANGED <<search_vars, download_args>>

\* lines 273-280, download_all: a warning and None for an empty table, else
\* the loop over the rows starts at row 0
download_all ==
    /\ pc = "dl_idle"
    /\ entry' = "download_all"
    /\ idx' = 0
    /\ fetched' = << >>
    /\ IF Len(result) = 0
       THEN /\ log' = Append(log, Did("warning", None, None))
            /\ retval' = Returned("None", << >>)
            /\ pc' = "dl_returned"
       ELSE /\ log' = log
            /\ retval' = retval
            /\ pc' = "download_one"
    /\ UNCHANGED <<result, outcome, dirs, files, calls, local_dir, tesscut_dir, path, exc>>
    /\ UNCHANGED <<search_vars, download_args>>

\* lines 127-131 and 156, _download_one: the download directory and the
\* branch on 'FFI Cutout' in the description of the row
download_one ==
    /\ pc = "download_one"
    /\ LET dd == IF download_dir = None
                 THEN default_download_dir(dirs, unmakeable)
                 ELSE [dir |-> Val(download_dir), dirs |-> dirs, events |-> << >>,
                       error |-> FALSE]
       IN  IF dd.error
           THEN /\ outcome' = "OSError"
                /\ pc' = "dl_raised"
                /\ UNCHANGED <<log, dirs, local_dir>>
           ELSE /\ local_dir' = Some(dd.dir)
                /\ dirs' = dd.dirs
                /\ log' = log \o [i \in 1..Len(dd.events) |-> Did(dd.events[i], Some(HomeCache), None)]
                /\ outcome' = outcome
                /\ pc' = IF contains(row_slice(result, idx).description,
                                     <<"F","F","I"," ","C","u","t","o","u","t">>)
                         THEN "fetch_tesscut" ELSE "download_products"
    /\ UNCHANGED <<entry, result, files, idx, fetched, retval, calls, tesscut_dir, path, exc>>
    /\ UNCHANGED <<search_vars, download_args>>

\* the name the cutout service gives the file it writes: the size it was
\* asked for as <x>x<y> (N x N for a single number, (y, x) for a tuple)
service_size_name(cs) == IntToStr(cs.x) \o <<"x">> \o IntToStr(cs.y)

\* lines 337-378, _fetch_tesscut_path up to the cache lookup: the position,
\* the 'tesscut' folder, the sector name, the size text and the glob
fetch_tesscut_lookup ==
    /\ pc = "fetch_tesscut"
    /\ \/ /\ exc' = Some(LookupFailures.Resolver)
          /\ pc' = "download_one_except"
          /\ UNCHANGED <<log, dirs, tesscut_dir, path>>
       \/ LET row == row_slice(result, idx)
              cs  == size_or_default(cutout_size)
              td  == tesscut_dir_of(Val(local_dir), dirs, unmakeable)
              sec == Val(row.sequence_number)
              m   == matchstring(SectorName(sec), Val(coords), Val(size_str(cs)))
              hit == glob(files, td.dir, m)
          IN  /\ dirs' = td.dirs
              /\ tesscut_dir' = Some(td.dir)
              /\ IF sec \notin AvailableSectors
                 THEN exc' = Some(LookupFailures.SectorMissing) /\ pc' = "download_one_except"
                      /\ UNCHANGED <<log, path>>
                 ELSE IF size_str(cs) = None
                 THEN exc' = Some(LookupFailures.SizeStrUnbound) /\ pc' = "download_one_except"
                      /\ UNCHANGED <<log, path>>
                 ELSE /\ log' = Append(log, Did("glob", Some(td.dir), Some(m)))
                      /\ exc' = exc
                      /\ IF hit # {}
                         THEN path' \in { Some(f) : f \in hit } /\ pc' = "read"
                         ELSE path' = path /\ pc' = "download_cutouts"
    /\ UNCHANGED <<entry, result, outcome, files, idx, fetched, retval, calls, local_dir>>
    /\ UNCHANGED <<search_vars, download_args>>

\* lines 381-384: the remote download of the cutout into tesscut_dir
fetch_tesscut_download ==
    /\ pc = "download_cutouts"
    /\ LET row == row_slice(result, idx)
           cs  == size_or_default(cutout_size)
           f   == CutoutFile(Val(tesscut_dir), SectorName(Val(row.sequence_number)),
                             Val(coords), service_size_name(cs))
       IN  /\ log' = Append(log, Did("download_cutouts", tesscut_dir, Some(f)))
           /\ \/ /\ files' = files \cup {f}
                 /\ path' = Some(f)
                 /\ exc' = exc
                 /\ pc' = "read"
              \/ /\ exc' \in { Some(e) : e \in CutoutFailures }
                 /\ pc' = "download_one_except"
                 /\ UNCHANGED <<files, path>>
    /\ UNCHANGED <<entry, result, outcome, dirs, idx, fetched, retval, calls, local_dir,
                   tesscut_dir>>
    /\ UNCHANGED <<search_vars, download_args>>

\* lines 139-150: every exception of the cutout path is raised again as
\* HTTPError or SearchError
download_one_except ==
    /\ pc = "download_one_except"
    /\ outcome' = download_error(Val(exc))
    /\ pc' = "dl_raised"
    /\ UNCHANGED <<entry, log, result, dirs, files, idx, fetched, retval, calls, local_dir,
                   tesscut_dir, path, exc>>
    /\ UNCHANGED <<search_vars, download_args>>

\* lines 157-163: the download of a product of the archive
download_products ==
    /\ pc = "download_products"
    /\ log' = (IF cutout_size # None THEN Append(log, Did("warning", None, None)) ELSE log)
                 \o <<Did("download_products", local_dir, None)>>
    /\ \/ /\ path' = Some([dir |-> Val(local_dir), product |-> row_slice(result, idx).productFilename])
          /\ pc' = "read"
          /\ outcome' = outcome
       \/ /\ outcome' = "RemoteServiceError"
          /\ pc' = "dl_raised"
          /\ path' = path
    /\ UNCHANGED <<entry, result, dirs, files, idx, fetched, retval, calls, local_dir,
                   tesscut_dir, exc>>
    /\ UNCHANGED <<search_vars, download_args>>

\* a collection typed after its last item
collection_kind_by_last(items) ==
    IF items[Len(items)].type = "TargetPixelFile"
    THEN "TargetPixelFileCollection" ELSE "LightCurveCollection"

\* lines 286-289: the collection is typed after products[0]
collection_kind(items) ==
    IF items[1].type = "TargetPixelFile"
    THEN "TargetPixelFileCollection" ELSE "LightCurveCollection"

\* lines 152-154, 165 and 223, 280-289: the file is read; download returns
\* the object, download_all goes on with the next row or returns the
\* collection
read_file ==
    /\ pc = "read"
    /\ \E ty \in IF "dir" \in DOMAIN Val(path) /\ "product" \in DOMAIN Val(path)
                 THEN {"TargetPixelFile", "LightCurve"} ELSE {"TargetPixelFile"} :
          LET item == [type |-> ty, row |-> idx]
              got  == Append(fetched, item)
          IN  /\ fetched' = got
              /\ log' = Append(log, Did("read", None, path))
              /\ IF entry = "download"
                 THEN /\ retval' = Returned("object", <<item>>)
                      /\ idx' = idx
                      /\ pc' = "dl_returned"
                 ELSE IF idx + 1 < Len(result)
                 THEN /\ retval' = retval
                      /\ idx' = idx + 1
                      /\ pc' = "download_one"
                 ELSE /\ retval' = Returned(collection_kind(got), got)
                      /\ idx' = idx
                      /\ pc' = "dl_returned"
    /\ UNCHANGED <<entry, result, outcome, dirs, files, calls, local_dir, tesscut_dir,
                   path, exc>>
    /\ UNCHANGED <<search_vars, download_args>>

\* one more download call on the same SearchResult after a call that
\* returned, with the same arguments and the file system the earlier calls
\* left
call_again ==
    /\ pc = "dl_returned"
    /\ calls < MaxCalls
    /\ calls' = calls + 1
    /\ pc' = "dl_idle"
    /\ outcome' = "none"
    /\ idx' = 0 /\ fetched' = << >> /\ retval' = None
    /\ local_dir' = None /\ tesscut_dir' = None /\ path' = None /\ exc' = None
    /\ UNCHANGED <<entry, log, result, dirs, files>>
    /\ UNCHANGED <<search_vars, download_args>>

NextDownload ==
    \/ download
    \/ download_all
    \/ download_one
    \/ fetch_tesscut_lookup
    \/ fetch_tesscut_download
    \/ download_one_except
    \/ download_products
    \/ read_file
    \/ call_again

SpecDownload == InitDownload /\ [][NextDownload]_vars

-----------------------------------------------------------------------------
(* Properties of download, download_all and the cutout cache               *)

\* the positions of the log that belong to the call under way
ThisCall == { i \in 1..Len(log) : "call" \in DOMAIN log[i] /\ log[i].call = calls }

\* the records of a remote request
RemoteOps == {"download_cutouts", "download_products"}

\* C11: on a SearchResult with zero rows download() and download_all() emit
\* a warning and return None; they never raise, issue no remote request and
\* touch no file.
C11_EmptyDownload ==
    Len(result) = 0 =>
        /\ pc \in {"dl_idle", "dl_returned"}
        /\ outcome = "none"
        /\ \A i \in 1..Len(log) : log[i].op = "warning"
        /\ pc = "dl_returned" =>
              /\ retval = Returned("None", << >>)
              /\ \E i \in ThisCall : log[i].op = "warning"

\* C11 witness: download and then download_all have returned None on an
\* empty SearchResult
C11_Witness ==
    /\ Len(result) = 0
    /\ calls = 2 /\ pc = "dl_returned" /\ entry = "download_all"
    /\ retval = Returned("None", << >>)
    /\ Len(log) = 2

\* the remote cutout download recorded at position i succeeded: the file
\* was stored and read
C12_Stored(i) ==
    /\ log[i].op = "download_cutouts"
    /\ i < Len(log) /\ log[i + 1].op = "read" /\ log[i + 1].key = log[i].key

\* C12: every remote cutout download comes after the cache lookup of its
\* request, made in the directory the download is stored in; and once a
\* remote download has stored its file, no later request for the same
\* target, sector, size and directory downloads again: download_cutouts is
\* called once in total.
C12_CacheServesSecondRequest ==
    /\ \A i \in 1..Len(log) :
          log[i].op = "download_cutouts" =>
              /\ i > 1 /\ log[i - 1].op = "glob"
              /\ log[i - 1].call = log[i].call /\ log[i - 1].row = log[i].row
              /\ log[i - 1].dir = log[i].dir
    /\ \A i, j \in 1..Len(log) :
          (i < j /\ C12_Stored(i) /\ log[j].op = "download_cutouts")
              => log[j].key # log[i].key

\* C12 witness: the first call downloaded the cutout of its row, the second
\* call found the file in the cache and read it without a remote download
C12_Witness ==
    /\ calls = 2 /\ pc = "dl_returned" /\ Len(result) = 1
    /\ \E i \in 1..Len(log) : log[i].call = 1 /\ C12_Stored(i)
    /\ \E i \in ThisCall : log[i].op = "glob"
    /\ \A i \in ThisCall : log[i].op # "download_cutouts"
    /\ path # None /\ Val(path) \in files

\* C13 as claimed: a failed cutout download surfaces as HTTPError if and
\* only if its cause is a gateway timeout (HTTP 504), whatever the text of
\* the message; every other failure surfaces as SearchError.
C13_HTTPErrorOnlyForTimeout ==
    (pc = "dl_raised" /\ exc # None) =>
        /\ outcome \in {"HTTPError", "SearchError"}
        /\ outcome = "HTTPError" <=> Val(exc).cause = "GatewayTimeout"

\* C20 as claimed: for a cutout_size given as an int, a float or a (y, x)
\* tuple the size text of the cache key is defined and the download reaches
\* the cache lookup without an exception caused by the type of the size.
C20_EverySizeKindAccepted ==
    ~(exc # None /\ Val(exc).cause = "UnboundLocalError")

\* C14: download() on a SearchResult with more than one row emits a warning
\* and then fetches one product, row 0 of the table: every file-system
\* access and remote request of the call is made for row 0 after the
\* warning, at most one remote request is issued, and the object returned
\* is the one read for row 0.
C14_DownloadFirstRowOnly ==
    (entry = "download" /\ pc # "dl_idle" /\ Len(result) > 1) =>
        /\ \E w \in ThisCall :
              /\ log[w].op = "warning"
              /\ \A i \in ThisCall : i # w => (i > w /\ log[i].row = 0)
        /\ Cardinality({ i \in ThisCall : log[i].op \in RemoteOps }) <= 1
        /\ Cardinality({ i \in ThisCall : log[i].op = "read" }) <= 1
        /\ \A k \in 1..Len(fetched) : fetched[k].row = 0
        /\ pc = "dl_returned" =>
              /\ Len(fetched) = 1
              /\ retval = Returned("object", fetched)

\* C14 witness: download() on two rows returned the object of row 0 after a
\* remote download
C14_Witness ==
    /\ entry = "download" /\ pc = "dl_returned" /\ Len(result) = 2
    /\ result[1] # result[2]
    /\ \E i \in ThisCall : log[i].op \in RemoteOps
    /\ retval = Returned("object", <<[type |-> "TargetPixelFile", row |-> 0]>>)

\* C15: download_all() on n >= 1 rows fetches the rows one at a time in
\* table order, row 0 first and each row once; when every fetch succeeds
\* it returns a collection of the n items in that order, a
\* TargetPixelFileCollection exactly when the first item is a
\* TargetPixelFile and a LightCurveCollection otherwise.
C15_DownloadAllInOrder ==
    (entry = "download_all" /\ pc # "dl_idle" /\ Len(result) >= 1) =>
        /\ \A k \in 1..Len(fetched) : fetched[k].row = k - 1
        /\ \A i, j \in ThisCall : i < j => log[i].row <= log[j].row
        /\ \A i, j \in ThisCall :
              (i < j /\ log[i].op = log[j].op /\ log[i].op \in RemoteOps \cup {"read", "glob"})
                  => log[i].row < log[j].row
        /\ pc = "dl_returned" =>
              /\ Len(fetched) = Len(result)
              /\ retval # None
              /\ Val(retval).items = fetched
              /\ Val(retval).kind = "TargetPixelFileCollection"
                    <=> fetched[1].type = "TargetPixelFile"
              /\ Val(retval).kind = "LightCurveCollection"
                    <=> fetched[1].type # "TargetPixelFile"

\* C15 witness: download_all() on a product row followed by a cutout row
\* returned a LightCurveCollection of the two items
C15_Witness ==
    /\ entry = "download_all" /\ pc = "dl_returned" /\ Len(result) = 2
    /\ retval = Returned("LightCurveCollection",
                         <<[type |-> "LightCurve", row |-> 0],
                           [type |-> "TargetPixelFile", row |-> 1]>>)

\* C16: no step of download() or download_all(), of a call that succeeds or
\* of one that fails, changes the table of the SearchResult.
C16_TableUnchanged == [][result' = result]_vars

\* C16 witness: a download_all() of two rows has failed on its second row
\* after a first call had succeeded
C16_Witness ==
    /\ calls = 2 /\ pc = "dl_raised" /\ entry = "download_all"
    /\ Len(result) = 2 /\ idx = 1 /\ Len(fetched) = 1

\* C19: a directory that cannot be created never fails the download: when
\* ~/.lightkurve-cache is missing and cannot be created the download
\* directory is '.'; when the 'tesscut' subfolder is missing and cannot be
\* created the download directory itself is where the cache is looked up
\* and where the cutout is downloaded to.
C19_DirectoryFallback ==
    /\ outcome # "OSError"
    /\ (local_dir # None /\ download_dir = None) =>
          /\ HomeCache \notin dirs => (HomeCache \in unmakeable /\ local_dir = Some(CurrentDir))
          /\ HomeCache \in dirs => local_dir = Some(HomeCache)
    /\ (local_dir # None /\ download_dir # None) => local_dir = download_dir
    /\ (tesscut_dir # None /\ path_join(Val(local_dir), "tesscut") \notin dirs) =>
          /\ tesscut_dir = local_dir
          /\ \A i \in ThisCall :
                (log[i].op \in {"glob", "download_cutouts"} /\ log[i].row = idx)
                    => log[i].dir = local_dir

\* C19 witness: neither ~/.lightkurve-cache nor ./tesscut could be created
\* and the cutout was downloaded into '.' and read
C19_Witness ==
    /\ download_dir = None /\ HomeCache \notin dirs
    /\ local_dir = Some(CurrentDir) /\ tesscut_dir = Some(CurrentDir)
    /\ pc = "dl_returned"
    /\ \E i \in ThisCall : log[i].op = "download_cutouts" /\ log[i].dir = Some(CurrentDir)
    /\ \E f \in files : f.dir = CurrentDir

====
